---- MODULE Spec2Model ----
(***************************************************************************)
(* Model of the website RAG application: the website ingestion job, the   *)
(* chat message handlers, the crawl loop of ScraperService, the retrieval *)
(* ranker of RAGService and the AdaptiveChunkerService.                   *)
(*                                                                         *)
(* Specifications:                                                         *)
(*   Spec       websites, ingestion jobs, chat requests, deletion          *)
(*   CrawlSpec  one run of ScraperService.scrapeWebsite                    *)
(*   CrawlLiveSpec  CrawlSpec with weak fairness of the crawl steps        *)
(*   RankSpec   RAGService.findRelevantChunks                              *)
(*   ChunkSpec  AdaptiveChunkerService.chunkText                           *)
(*   DetectSpec SiteDetectorService.detectSiteType                         *)
(*   PrioritySpec  the priority of one link discovered by scrapeWebsite    *)
(***************************************************************************)
EXTENDS Integers, Sequences, FiniteSets, TLC

VARIABLES
    websites,               \* websites table: id -> status, or "absent"/"deleted"
    statusLog,              \* history: every value written to websites.status
    website_chunks,         \* website_chunks table
    website_chats,          \* website_chats table
    website_chat_messages,  \* website_chat_messages table
    nextChatId,             \* chat ids are generated fresh
    job,                    \* processWebsite invocations, one per website
    post,                   \* in-flight POST /api/chat/[websiteId]/messages
    get,                    \* in-flight GET /api/chat/[websiteId]/messages
    crawl,                  \* locals of one scrapeWebsite run
    rank,                   \* one findRelevantChunks call
    ck,                     \* one AdaptiveChunkerService.chunkText call
    det                     \* one SiteDetectorService.detectSiteType call

vars == <<websites, statusLog, website_chunks, website_chats,
          website_chat_messages, nextChatId, job, post, get, crawl, rank, ck, det>>

sysVars == <<websites, statusLog, website_chunks, website_chats,
             website_chat_messages, nextChatId, job, post, get>>

\* ------------------------------------------------------------------ bounds
MaxWebsites == 2
MaxPages == 2
MaxChunks == 2
MaxPosts == 1
MaxGets == 1

\* scrapeWebsite(url, 10) in processWebsite
IngestMaxPages == 10

WebsiteIds == 1..MaxWebsites
PostIds == 1..MaxPosts
GetIds == 1..MaxGets

Min(a, b) == IF a < b THEN a ELSE b
Max(a, b) == IF a > b THEN a ELSE b

\* ------------------------------------------------------- idle sub-states
CrawlIdle == [pc |-> "off"]
RankIdle == [pc |-> "off"]
ChunkIdle == [pc |-> "off"]
DetectIdle == [pc |-> "off"]

\* =====================================================================
\* Websites, ingestion job, chat handlers
\* =====================================================================

Exists(w) == websites[w] \notin {"absent", "deleted"}

\* FOREIGN KEY ("websiteId") REFERENCES "websites" ("id"): a row that
\* refers to website w can be inserted only while the website row exists
ForeignKeyHolds_NotEnforced(w) == TRUE

ForeignKeyHolds(w) == Exists(w)

JobIdle ==
    [pc |-> "idle", pages |-> 0, page |-> 0, nChunks |-> 0, embedded |-> 0,
     chunkCalls |-> 0, embedCalls |-> 0, storeCalls |-> 0,
     embedFailed |-> FALSE, atFail |-> <<0, 0, 0>>, threw |-> FALSE,
     embeddedChunks |-> <<>>]

PostIdle == [pc |-> "idle", websiteId |-> 0, chatId |-> 0, resp |-> 0,
             providerFailed |-> FALSE]

GetIdle == [pc |-> "idle", websiteId |-> 0, resp |-> 0]

Init ==
    /\ websites = [w \in WebsiteIds |-> "absent"]
    /\ statusLog = [w \in WebsiteIds |-> <<>>]
    /\ website_chunks = {}
    /\ website_chats = {}
    /\ website_chat_messages = {}
    /\ nextChatId = 1
    /\ job = [w \in WebsiteIds |-> JobIdle]
    /\ post = [r \in PostIds |-> PostIdle]
    /\ get = [g \in GetIds |-> GetIdle]
    /\ crawl = CrawlIdle
    /\ rank = RankIdle
    /\ ck = ChunkIdle
    /\ det = DetectIdle

\* prisma.website.update({where: {id}, data: {status}}): throws when the row
\* does not exist.
UpdateStatus(w, st) ==
    /\ websites' = [websites EXCEPT ![w] = st]
    /\ statusLog' = [statusLog EXCEPT ![w] = Append(@, st)]

\* The catch block of processWebsite: update status to failed; when the row
\* is gone the update throws and the rejection is only logged by the caller.
JobCatch(w, j) ==
    IF Exists(w)
    THEN /\ UpdateStatus(w, "failed")
         /\ job' = [job EXCEPT ![w] = [j EXCEPT !.pc = "done"]]
    ELSE /\ UNCHANGED <<websites, statusLog>>
         /\ job' = [job EXCEPT ![w] = [j EXCEPT !.pc = "done", !.threw = TRUE]]

\* status written by prisma.website.create in POST /api/websites
InitialStatus_Default == "pending"

InitialStatus == "processing"

\* POST /api/websites with a valid website URL: create the row and start
\* processWebsite in the background.  (An invalid URL returns 400 and
\* changes nothing.)  Ids are fresh: the lowest id never used.
PostWebsite(w) ==
    /\ websites[w] = "absent"
    /\ \A v \in WebsiteIds : v < w => websites[v] # "absent"
    /\ websites' = [websites EXCEPT ![w] = InitialStatus]
    /\ statusLog' = [statusLog EXCEPT ![w] = <<InitialStatus>>]
    /\ job' = [job EXCEPT ![w] = [JobIdle EXCEPT !.pc = "scrape"]]
    /\ UNCHANGED <<website_chunks, website_chats, website_chat_messages,
                   nextChatId, post, get, crawl, rank, ck, det>>

\* if (scrapedPages.length === 0)
ZeroPages_Never(n) == n < 0

ZeroPages(n) == n = 0

\* processWebsite up to the first page: scrapeWebsite returns n pages
\* (the crawl loop itself is CrawlSpec), then either the zero-page exit or
\* the title/description update.
JobScrape(w) ==
    /\ job[w].pc = "scrape"
    /\ \E n \in 0..Min(IngestMaxPages, MaxPages) :
        LET j == [job[w] EXCEPT !.pages = n] IN
        IF ZeroPages(n)
        THEN \* update status failed; return.  A throwing update lands in catch.
             JobCatch(w, j)
        ELSE IF Exists(w)
             THEN \* update title and description
                  /\ job' = [job EXCEPT ![w] =
                                [j EXCEPT !.pc = IF n = 0 THEN "complete" ELSE "chunk",
                                          !.page = IF n = 0 THEN 0 ELSE 1]]
                  /\ UNCHANGED <<websites, statusLog>>
             ELSE JobCatch(w, j)
    /\ UNCHANGED <<website_chunks, website_chats, website_chat_messages,
                   nextChatId, post, get, crawl, rank, ck, det>>

\* processWebsiteContent, first part: the chunker splits the page content.
JobChunk(w) ==
    /\ job[w].pc = "chunk"
    /\ \E c \in 0..MaxChunks :
        job' = [job EXCEPT ![w] =
                   [@ EXCEPT !.nChunks = c, !.embedded = 0,
                             !.embeddedChunks = <<>>,
                             !.chunkCalls = @ + 1,
                             !.pc = IF c = 0 THEN "store" ELSE "embed"]]
    /\ UNCHANGED <<websites, statusLog, website_chunks, website_chats,
                   website_chat_messages, nextChatId, post, get, crawl, rank, ck, det>>

\* calls made so far to the chunker, the embedding provider, the chunk store
Calls(j) == <<j.chunkCalls, j.embedCalls, j.storeCalls>>

\* generateEmbeddings, catch (error): throw error
EmbedErrorRethrown_Swallowed == FALSE

EmbedErrorRethrown == TRUE

\* embeddedChunks.push({...chunk, embedding: response.data[0].embedding}) for
\* chunks[i]: embedding i stands for the vector the provider computed from
\* the content of chunk i
EmbeddedChunk_PreviousVector(i) == [chunkIndex |-> i, embedding |-> Max(i - 1, 0)]

EmbeddedChunk(i) == [chunkIndex |-> i, embedding |-> i]

\* generateEmbeddings: one embeddings.create call for the next chunk.
JobEmbed(w) ==
    /\ job[w].pc = "embed"
    /\ LET j == [job[w] EXCEPT !.embedCalls = @ + 1]
           next(k) == IF k = j.nChunks THEN "store" ELSE "embed"
       IN \/ \* the provider answers
             /\ job' = [job EXCEPT ![w] =
                           [j EXCEPT !.embedded = @ + 1,
                                     !.embeddedChunks =
                                         Append(@, EmbeddedChunk(j.embedded)),
                                     !.pc = next(j.embedded + 1)]]
             /\ UNCHANGED <<websites, statusLog>>
          \/ \* the provider fails
             IF EmbedErrorRethrown
             THEN JobCatch(w, [j EXCEPT !.embedFailed = TRUE,
                                        !.atFail = Calls(j)])
             ELSE /\ job' = [job EXCEPT ![w] =
                                [j EXCEPT !.embedFailed = TRUE,
                                          !.atFail = Calls(j),
                                          !.nChunks = @ - 1,
                                          !.pc = next(j.embedded)]]
                  /\ UNCHANGED <<websites, statusLog>>
    /\ UNCHANGED <<website_chunks, website_chats, website_chat_messages,
                   nextChatId, post, get, crawl, rank, ck, det>>

\* processWebsiteContent, last part: prisma.websiteChunk.createMany, then the
\* next page of the for loop.  Inserting rows for a deleted website violates
\* the foreign key and throws.
JobStore(w) ==
    /\ job[w].pc = "store"
    /\ LET j == job[w] IN
       IF j.nChunks > 0 /\ ~ForeignKeyHolds(w)
       THEN /\ JobCatch(w, j)
            /\ UNCHANGED website_chunks
       ELSE /\ website_chunks' = website_chunks \cup
                  { [websiteId |-> w, page |-> j.page,
                     chunkIndex |-> j.embeddedChunks[i].chunkIndex,
                     embedding |-> j.embeddedChunks[i].embedding] :
                        i \in 1..Len(j.embeddedChunks) }
            /\ job' = [job EXCEPT ![w] =
                          [j EXCEPT !.storeCalls = @ + 1,
                                    !.page = IF j.page < j.pages THEN @ + 1 ELSE @,
                                    !.pc = IF j.page < j.pages THEN "chunk"
                                                               ELSE "complete"]]
            /\ UNCHANGED <<websites, statusLog>>
    /\ UNCHANGED <<website_chats, website_chat_messages,
                   nextChatId, post, get, crawl, rank, ck, det>>

\* processWebsite, "Mark as completed"
JobComplete(w) ==
    /\ job[w].pc = "complete"
    /\ IF Exists(w)
       THEN /\ UpdateStatus(w, "completed")
            /\ job' = [job EXCEPT ![w].pc = "done"]
       ELSE JobCatch(w, job[w])
    /\ UNCHANGED <<website_chunks, website_chats, website_chat_messages,
                   nextChatId, post, get, crawl, rank, ck, det>>

\* DELETE /api/websites/[id] on an existing website; the foreign keys cascade
\* to chunks, chats and chat messages.  (A missing website returns 404.)
DeleteWebsite(w) ==
    /\ Exists(w)
    /\ websites' = [websites EXCEPT ![w] = "deleted"]
    /\ website_chunks' = { c \in website_chunks : c.websiteId # w }
    /\ website_chats' = { c \in website_chats : c.websiteId # w }
    /\ website_chat_messages' =
          { m \in website_chat_messages :
                \E c \in website_chats : c.id = m.chatId /\ c.websiteId # w }
    /\ UNCHANGED <<statusLog, nextChatId, job, post, get, crawl, rank, ck, det>>

\* ---------------------------------------------------------------- chat POST

\* if (website.status !== 'completed') return 400
IsReady_Always(st) == TRUE

IsReady(st) == st = "completed"

Respond(r, code) == post' = [post EXCEPT ![r].pc = "done", ![r].resp = code]

ChatsOf(w) == { c \in website_chats : c.websiteId = w }

\* POST messages: body validation and prisma.website.findUnique.
PostReceive(r) ==
    /\ post[r].pc = "idle"
    /\ \E w \in WebsiteIds, messageOk \in BOOLEAN :
        IF ~messageOk THEN Respond(r, 400)
        ELSE IF ~Exists(w)
             THEN post' = [post EXCEPT ![r].pc = "done", ![r].resp = 404,
                                       ![r].websiteId = w]
        ELSE IF ~IsReady(websites[w])
             THEN post' = [post EXCEPT ![r].pc = "done", ![r].resp = 400,
                                       ![r].websiteId = w]
        ELSE post' = [post EXCEPT ![r].pc = "findChat", ![r].websiteId = w]
    /\ UNCHANGED <<websites, statusLog, website_chunks, website_chats,
                   website_chat_messages, nextChatId, job, get, crawl, rank, ck, det>>

\* where the handler goes once it holds a chat: "Save user message"
AfterChat_SaveLater == "embedQuery"

AfterChat == "saveUser"

\* POST messages: prisma.websiteChat.findFirst
PostFindChat(r) ==
    /\ post[r].pc = "findChat"
    /\ IF ChatsOf(post[r].websiteId) = {}
       THEN post' = [post EXCEPT ![r].pc = "createChat"]
       ELSE \E c \in ChatsOf(post[r].websiteId) :
              /\ \A d \in ChatsOf(post[r].websiteId) : c.id <= d.id
              /\ post' = [post EXCEPT ![r].pc = AfterChat, ![r].chatId = c.id]
    /\ UNCHANGED <<websites, statusLog, website_chunks, website_chats,
                   website_chat_messages, nextChatId, job, get, crawl, rank, ck, det>>

\* POST messages: prisma.websiteChat.create; the foreign key rejects a chat
\* for a website that no longer exists and the handler answers 500.
PostCreateChat(r) ==
    /\ post[r].pc = "createChat"
    /\ IF ForeignKeyHolds(post[r].websiteId)
       THEN /\ website_chats' = website_chats \cup
                   {[id |-> nextChatId, websiteId |-> post[r].websiteId]}
            /\ nextChatId' = nextChatId + 1
            /\ post' = [post EXCEPT ![r].pc = AfterChat, ![r].chatId = nextChatId]
       ELSE /\ Respond(r, 500)
            /\ UNCHANGED <<website_chats, nextChatId>>
    /\ UNCHANGED <<websites, statusLog, website_chunks,
                   website_chat_messages, job, get, crawl, rank, ck, det>>

ChatExists(id) == \E c \in website_chats : c.id = id

\* POST messages: prisma.websiteChatMessage.create, role 'user'
PostSaveUser(r) ==
    /\ post[r].pc = "saveUser"
    /\ IF ChatExists(post[r].chatId)
       THEN /\ website_chat_messages' = website_chat_messages \cup
                   {[chatId |-> post[r].chatId, role |-> "user", turn |-> r]}
            /\ post' = [post EXCEPT ![r].pc = "embedQuery"]
       ELSE /\ Respond(r, 500)
            /\ UNCHANGED website_chat_messages
    /\ UNCHANGED <<websites, statusLog, website_chunks, website_chats,
                   nextChatId, job, get, crawl, rank, ck, det>>

\* generateResponse -> findRelevantChunks: createEmbedding(query), then the
\* chunks are read and ranked (RankSpec) and the completion request is sent.
PostEmbedQuery(r) ==
    /\ post[r].pc = "embedQuery"
    /\ \/ post' = [post EXCEPT ![r].pc = "complete"]
       \/ post' = [post EXCEPT ![r].pc = "done", ![r].resp = 500,
                               ![r].providerFailed = TRUE]
    /\ UNCHANGED <<websites, statusLog, website_chunks, website_chats,
                   website_chat_messages, nextChatId, job, get, crawl, rank, ck, det>>

\* generateResponse: chat.completions.create, then "Save assistant message"
PostComplete(r) ==
    /\ post[r].pc = "complete"
    /\ \/ /\ IF ChatExists(post[r].chatId)
             THEN /\ website_chat_messages' = website_chat_messages \cup
                        {[chatId |-> post[r].chatId, role |-> "assistant", turn |-> r]}
                  /\ Respond(r, 200)
             ELSE /\ Respond(r, 500)
                  /\ UNCHANGED website_chat_messages
       \/ /\ post' = [post EXCEPT ![r].pc = "done", ![r].resp = 500,
                                  ![r].providerFailed = TRUE]
          /\ UNCHANGED website_chat_messages
    /\ UNCHANGED <<websites, statusLog, website_chunks, website_chats,
                   nextChatId, job, get, crawl, rank, ck, det>>

\* ----------------------------------------------------------------- chat GET

\* GET messages: prisma.websiteChat.findFirst
GetFindChat(g) ==
    /\ get[g].pc = "idle"
    /\ \E w \in WebsiteIds :
        get' = [get EXCEPT ![g].websiteId = w,
                           ![g].pc = IF ChatsOf(w) = {} THEN "createChat" ELSE "done",
                           ![g].resp = IF ChatsOf(w) = {} THEN 0 ELSE 200]
    /\ UNCHANGED <<websites, statusLog, website_chunks, website_chats,
                   website_chat_messages, nextChatId, job, post, crawl, rank, ck, det>>

\* GET messages: prisma.websiteChat.create (no check that the website exists
\* other than the foreign key)
GetCreateChat(g) ==
    /\ get[g].pc = "createChat"
    /\ IF ForeignKeyHolds(get[g].websiteId)
       THEN /\ website_chats' = website_chats \cup
                   {[id |-> nextChatId, websiteId |-> get[g].websiteId]}
            /\ nextChatId' = nextChatId + 1
            /\ get' = [get EXCEPT ![g].pc = "done", ![g].resp = 200]
       ELSE /\ get' = [get EXCEPT ![g].pc = "done", ![g].resp = 500]
            /\ UNCHANGED <<website_chats, nextChatId>>
    /\ UNCHANGED <<websites, statusLog, website_chunks,
                   website_chat_messages, job, post, crawl, rank, ck, det>>

Next ==
    \/ \E w \in WebsiteIds : PostWebsite(w)
    \/ \E w \in WebsiteIds : JobScrape(w)
    \/ \E w \in WebsiteIds : JobChunk(w)
    \/ \E w \in WebsiteIds : JobEmbed(w)
    \/ \E w \in WebsiteIds : JobStore(w)
    \/ \E w \in WebsiteIds : JobComplete(w)
    \/ \E w \in WebsiteIds : DeleteWebsite(w)
    \/ \E r \in PostIds : PostReceive(r)
    \/ \E r \in PostIds : PostFindChat(r)
    \/ \E r \in PostIds : PostCreateChat(r)
    \/ \E r \in PostIds : PostSaveUser(r)
    \/ \E r \in PostIds : PostEmbedQuery(r)
    \/ \E r \in PostIds : PostComplete(r)
    \/ \E g \in GetIds : GetFindChat(g)
    \/ \E g \in GetIds : GetCreateChat(g)

Spec == Init /\ [][Next]_vars

\* =====================================================================
\* Properties of Spec
\* =====================================================================

\* C1 (as stated): the status of a website created through POST /api/websites
\* passes through pending, then processing, and ends in completed or failed.
C1_PendingFirst ==
    \A w \in WebsiteIds :
        statusLog[w] \in { <<>>, <<"pending">>, <<"pending", "processing">>,
                           <<"pending", "processing", "completed">>,
                           <<"pending", "processing", "failed">> }

\* C1 (amended): a website is created with status processing and is never
\* pending; the ingestion job writes the status at most once more, to
\* completed or to failed, and when the job has returned and the website
\* still exists its status is one of these two.
C1_StatusLifecycle ==
    \A w \in WebsiteIds :
        /\ statusLog[w] \in { <<>>, <<"processing">>,
                              <<"processing", "completed">>,
                              <<"processing", "failed">> }
        /\ Exists(w) => websites[w] = statusLog[w][Len(statusLog[w])]
        /\ (job[w].pc = "done" /\ Exists(w)) => websites[w] \in {"completed", "failed"}

C1_Witness ==
    \E w, v \in WebsiteIds :
        /\ job[w].pc = "done" /\ websites[w] = "completed"
        /\ job[v].pc = "done" /\ websites[v] = "failed"

MessagesOfTurn(r) == { m \in website_chat_messages : m.turn = r }

\* C3: chat messages exist only in chats of websites whose status is
\* completed, and a POST that was answered 400 or 404 stored no message.
C3_MessagesOnlyWhenCompleted ==
    /\ \A m \in website_chat_messages :
          \E c \in website_chats :
              c.id = m.chatId /\ websites[c.websiteId] = "completed"
    /\ \A r \in PostIds :
          post[r].resp \in {400, 404} => MessagesOfTurn(r) = {}

C3_Witness ==
    \E r \in PostIds :
        /\ post[r].pc = "done" /\ post[r].resp = 400
        /\ post[r].websiteId \in WebsiteIds
        /\ websites[post[r].websiteId] \in {"processing", "failed"}

\* C4: once the embedding provider has failed in an ingestion job, the job
\* has returned without another call to the chunker, the provider or the
\* chunk store, and the website's status is failed, never completed.
C4_EmbeddingFailureAborts ==
    \A w \in WebsiteIds :
        job[w].embedFailed =>
            /\ job[w].pc = "done"
            /\ Calls(job[w]) = job[w].atFail
            /\ websites[w] \in {"failed", "deleted"}
            /\ \A i \in 1..Len(statusLog[w]) : statusLog[w][i] # "completed"

C4_Witness ==
    \E w \in WebsiteIds :
        /\ job[w].embedFailed /\ websites[w] = "failed"
        /\ job[w].page < job[w].pages

\* C5: when the crawl returned zero pages the job has set the status to
\* failed and returned without calling the chunker, the embedding provider
\* or the chunk store.
C5_ZeroPagesFails ==
    \A w \in WebsiteIds :
        (job[w].pc \notin {"idle", "scrape"} /\ job[w].pages = 0) =>
            /\ job[w].pc = "done"
            /\ Calls(job[w]) = <<0, 0, 0>>
            /\ { c \in website_chunks : c.websiteId = w } = {}
            /\ Exists(w) => websites[w] = "failed"

C5_Witness ==
    \E w \in WebsiteIds :
        job[w].pc = "done" /\ job[w].pages = 0 /\ websites[w] = "failed"

\* C6: when the query-embedding or completion provider fails in a chat turn,
\* the request is answered 500, the user's message of the turn is stored in
\* the chat and no assistant message of the turn is stored.
C6_ProviderFailureKeepsUserMessage ==
    \A r \in PostIds :
        post[r].providerFailed =>
            /\ post[r].pc = "done" /\ post[r].resp = 500
            /\ \A m \in MessagesOfTurn(r) : m.role # "assistant"
            /\ ChatExists(post[r].chatId) =>
                  [chatId |-> post[r].chatId, role |-> "user", turn |-> r]
                      \in website_chat_messages

C6_Witness ==
    \E r \in PostIds :
        /\ post[r].providerFailed
        /\ [chatId |-> post[r].chatId, role |-> "user", turn |-> r]
               \in website_chat_messages

\* no chunk and no chat refers to a deleted website, and every message
\* belongs to a chat that exists
C18_NoRowsOfDeleted ==
    /\ \A w \in WebsiteIds :
          websites[w] = "deleted" =>
              /\ \A c \in website_chunks : c.websiteId # w
              /\ \A c \in website_chats : c.websiteId # w
    /\ \A m \in website_chat_messages : ChatExists(m.chatId)

\* a step that deletes website w leaves the chunks of the other websites
C18_OthersUntouched ==
    \A w \in WebsiteIds :
        (websites[w] # "deleted" /\ websites'[w] = "deleted") =>
            { c \in website_chunks' : c.websiteId # w }
                = { c \in website_chunks : c.websiteId # w }

\* C18: after DELETE of a website no chunk, chat or chat message of that
\* website exists in any later state, also when its ingestion job is still
\* running and later tries to insert chunks; the DELETE leaves the chunks of
\* other websites untouched.
C18_DeleteCascades ==
    /\ []C18_NoRowsOfDeleted
    /\ [][C18_OthersUntouched]_vars

\* the job of a deleted website stored page 1, then failed on the insert of
\* page 2 after the DELETE; another website keeps its chunks
C18_Witness ==
    \E w \in WebsiteIds : \E v \in WebsiteIds \ {w} :
        /\ websites[w] = "deleted"
        /\ job[w].pc = "done" /\ job[w].threw /\ ~job[w].embedFailed
        /\ job[w].nChunks > 0 /\ job[w].embedded = job[w].nChunks
        /\ job[w].storeCalls >= 1 /\ job[w].storeCalls = job[w].page - 1
        /\ \E c \in website_chunks : c.websiteId = v

\* C19: for each website at most one chat exists at any time, under any
\* interleaving of GET and POST requests for that website.
C19_AtMostOneChat ==
    \A w \in WebsiteIds : Cardinality(ChatsOf(w)) <= 1

\* the stored chunks of page p of website w
PageRows(w, p) == { c \in website_chunks : c.websiteId = w /\ c.page = p }

C29_PagesWholeAndInOrder ==
    \A w \in WebsiteIds :
        /\ \A p \in 1..MaxPages :
              \E n \in 0..MaxChunks :
                  /\ Cardinality(PageRows(w, p)) = n
                  /\ { c.chunkIndex : c \in PageRows(w, p) } = 0..(n - 1)
                  /\ \A c \in PageRows(w, p) : c.embedding = c.chunkIndex
        /\ job[w].pc \in {"chunk", "embed", "store"} =>
              \A p \in job[w].page..MaxPages : PageRows(w, p) = {}
        /\ job[w].embedFailed =>
              /\ \A p \in job[w].page..MaxPages : PageRows(w, p) = {}
              /\ websites[w] \in {"failed", "deleted"}
        /\ websites[w] = "completed" =>
              /\ ~job[w].embedFailed
              /\ job[w].storeCalls = job[w].pages

C29_StoredByPage ==
    \A w \in WebsiteIds :
        LET before == { c \in website_chunks : c.websiteId = w }
            after == { c \in website_chunks' : c.websiteId = w }
        IN /\ websites'[w] \notin {"absent", "deleted"} => before \subseteq after
           /\ after \ before # {} =>
                 /\ job[w].pc = "store"
                 /\ job[w].embedded = job[w].nChunks
                 /\ after \ before =
                       { [websiteId |-> w, page |-> job[w].page,
                          chunkIndex |-> i, embedding |-> i] :
                             i \in 0..(job[w].nChunks - 1) }

\* C29: chunk storage is all-or-nothing per page and in page order.  The
\* chunks of a page are inserted in one step, after every chunk of the page
\* was embedded, with chunkIndex 0..n-1 and each with the vector of its own
\* text; stored chunks stay as long as the website exists.  When embedding
\* failed on page k the store holds no chunk of page k or of a later page
\* and the status is failed; a completed website had every page stored.
C29_AllOrNothingPerPage ==
    /\ []C29_PagesWholeAndInOrder
    /\ [][C29_StoredByPage]_vars

\* embedding failed on the second chunk of page 2: the two chunks of page 1
\* are stored, none of page 2, and the website is failed
C29_Witness ==
    \E w \in WebsiteIds :
        /\ websites[w] = "failed"
        /\ job[w].embedFailed
        /\ job[w].page = 2
        /\ job[w].nChunks = 2 /\ job[w].embedded = 1
        /\ Cardinality(PageRows(w, 1)) = 2
        /\ PageRows(w, 2) = {}

\* =====================================================================
\* ScraperService.scrapeWebsite: the crawl loop
\* =====================================================================

MaxCrawlPages == 3
MaxLinks == 2
MaxSitemap == 2

\* URL strings.  "h" is the seed as typed without a trailing slash; new URL()
\* gives it the href "h/".  "o/" is a page of another host.
SeedUrls == {"h", "h/"}
SitemapLocs == {"h", "h/blog", "h/p"}
\* hrefs found in <a href> of a fetched page; ":bad" is not a valid URL
Hrefs == {"/", "/blog", "h/blog", "/en/2024/p", "/p", "o/", ":bad"}

\* new URL(link, currentUrl).href; "" stands for the TypeError of an invalid URL
Href(link) ==
    CASE link = "/" -> "h/"
      [] link = "h" -> "h/"
      [] link = "/blog" -> "h/blog"
      [] link = "/en/2024/p" -> "h/en/2024/p"
      [] link = "/p" -> "h/p"
      [] link = ":bad" -> ""
      [] OTHER -> link

\* new URL(u).hostname
Hostname(u) == IF u = "o/" THEN "o" ELSE "h"

IsListingPage(u) == u \in {"h/blog"}
IsArticleLink(u) == u \in {"h/en/2024/p"}
IsFrenchContent(u) == u \notin {"h/en/2024/p"}
HasYearPattern(u) == u \in {"h/en/2024/p"}
LongPath(u) == FALSE

\* "Calculate priority with advanced heuristics"
Priority(u) ==
    IF IsListingPage(u) THEN 1000
    ELSE IF IsArticleLink(u)
         THEN (IF IsFrenchContent(u) THEN 100 ELSE 50)
              + (IF HasYearPattern(u) THEN 20 ELSE 0)
              + (IF LongPath(u) THEN 10 ELSE 0)
         ELSE 1

\* sequences over S without repetition, of length at most n
RECURSIVE DistinctSeqs(_, _)
DistinctSeqs(S, n) ==
    IF n = 0 THEN { <<>> }
    ELSE LET shorter == DistinctSeqs(S, n - 1)
         IN shorter \cup
            { Append(q, x) : q \in { t \in shorter : Len(t) = n - 1 }, x \in S }

Range(q) == { q[i] : i \in 1..Len(q) }

NoRepeat(q) == \A i, k \in 1..Len(q) : i # k => q[i] # q[k]

\* Array.from(new Set(xs)): the first occurrence of each element, in order
RECURSIVE Dedupe(_)
Dedupe(xs) ==
    IF xs = <<>> THEN <<>>
    ELSE LET init == Dedupe(SubSeq(xs, 1, Len(xs) - 1))
             last == xs[Len(xs)]
         IN IF last \in Range(init) THEN init ELSE Append(init, last)

\* all sequences over S of length at most n
RECURSIVE SeqsUpTo(_, _)
SeqsUpTo(S, n) ==
    IF n = 0 THEN { <<>> }
    ELSE LET shorter == SeqsUpTo(S, n - 1)
         IN shorter \cup
            { Append(q, x) : q \in { t \in shorter : Len(t) = n - 1 }, x \in S }

\* urlsToVisit = sitemapUrls.length > 0 ? [...sitemapUrls, url] : [url]
InitialFrontier_SeedFirst(sitemapUrls, url) == <<url>> \o sitemapUrls

InitialFrontier(sitemapUrls, url) ==
    IF Len(sitemapUrls) > 0 THEN Append(sitemapUrls, url) ELSE <<url>>

\* const commonSitemapPaths
CommonSitemapPaths ==
    <<"/sitemap.xml", "/sitemap_index.xml", "/sitemap-index.xml",
      "/sitemap1.xml", "/post-sitemap.xml", "/page-sitemap.xml", "/robots.txt">>

\* the urls of the "Sitemap:" lines of a robots.txt; "" is a line whose url
\* is empty after trim
RobotsUrls == {"h/sitemap.xml", ""}

\* the <loc> values of a sitemap file; "" is an empty <loc/>
XmlLocs == SitemapLocs \cup {"h/more.xml", ""}

\* url.endsWith('.xml')
EndsWithXml(u) == u \in {"h/more.xml", "h/sitemap.xml"}

\* robots.txt: if (url) sitemapUrls.push(url)
RECURSIVE RobotsPushes(_)
RobotsPushes(urls) ==
    IF urls = <<>> THEN <<>>
    ELSE (IF Head(urls) # "" THEN <<Head(urls)>> ELSE <<>>) \o RobotsPushes(Tail(urls))

\* XML: if (url && !url.endsWith('.xml')) sitemapUrls.push(url)
RECURSIVE XmlPushes(_)
XmlPushes(locs) ==
    IF locs = <<>> THEN <<>>
    ELSE (IF Head(locs) # "" /\ ~EndsWithXml(Head(locs)) THEN <<Head(locs)>> ELSE <<>>)
         \o XmlPushes(Tail(locs))

CrawlInit ==
    /\ \E url \in SeedUrls, maxPages \in 0..MaxCrawlPages :
          crawl = [pc |-> "sitemap", url |-> url, maxPages |-> maxPages,
                   baseHostname |-> Hostname(Href(url)),
                   path |-> 1, sitemapUrls |-> <<>>,
                   urlsToVisit |-> <<>>,
                   visitedUrls |-> {}, scrapedPages |-> <<>>,
                   attempts |-> <<>>, relinked |-> FALSE,
                   newLinks |-> <<>>]
    /\ websites = [w \in WebsiteIds |-> "absent"]
    /\ statusLog = [w \in WebsiteIds |-> <<>>]
    /\ website_chunks = {}
    /\ website_chats = {}
    /\ website_chat_messages = {}
    /\ nextChatId = 1
    /\ job = [w \in WebsiteIds |-> JobIdle]
    /\ post = [r \in PostIds |-> PostIdle]
    /\ get = [g \in GetIds |-> GetIdle]
    /\ rank = RankIdle
    /\ ck = ChunkIdle
    /\ det = DetectIdle

\* findSitemap: the probe of one path fails (fetch rejects, times out,
\* the response is not ok, or reading the body throws)
SitemapProbeFails ==
    /\ crawl.pc = "sitemap"
    /\ crawl.path <= Len(CommonSitemapPaths)
    /\ crawl' = [crawl EXCEPT !.path = @ + 1]
    /\ UNCHANGED sysVars
    /\ UNCHANGED <<rank, ck, det>>

\* findSitemap: robots.txt is read; the urls of its Sitemap: lines are pushed.
\* The guard on the length only keeps the model finite.
SitemapProbeRobots ==
    /\ crawl.pc = "sitemap"
    /\ crawl.path <= Len(CommonSitemapPaths)
    /\ CommonSitemapPaths[crawl.path] = "/robots.txt"
    /\ \E urls \in SeqsUpTo(RobotsUrls, MaxSitemap) :
          /\ Len(crawl.sitemapUrls) + Len(RobotsPushes(urls)) <= MaxSitemap
          /\ crawl' = [crawl EXCEPT !.path = @ + 1,
                          !.sitemapUrls = @ \o RobotsPushes(urls)]
    /\ UNCHANGED sysVars
    /\ UNCHANGED <<rank, ck, det>>

\* findSitemap: an XML sitemap is read; its page urls are pushed
SitemapProbeXml ==
    /\ crawl.pc = "sitemap"
    /\ crawl.path <= Len(CommonSitemapPaths)
    /\ CommonSitemapPaths[crawl.path] # "/robots.txt"
    /\ \E locs \in SeqsUpTo(XmlLocs, MaxSitemap) :
          /\ Len(crawl.sitemapUrls) + Len(XmlPushes(locs)) <= MaxSitemap
          /\ crawl' = [crawl EXCEPT !.path = @ + 1,
                          !.sitemapUrls = @ \o XmlPushes(locs)]
    /\ UNCHANGED sysVars
    /\ UNCHANGED <<rank, ck, det>>

\* findSitemap returns Array.from(new Set(sitemapUrls)); scrapeWebsite
\* builds urlsToVisit from it
SitemapReturn ==
    /\ crawl.pc = "sitemap"
    /\ crawl.path > Len(CommonSitemapPaths)
    /\ crawl' = [crawl EXCEPT !.pc = "loop",
                    !.urlsToVisit = InitialFrontier(Dedupe(crawl.sitemapUrls), crawl.url)]
    /\ UNCHANGED sysVars
    /\ UNCHANGED <<rank, ck, det>>

\* while (urlsToVisit.length > 0 && scrapedPages.length < maxPages)
CrawlContinues_NoBudget ==
    /\ crawl.pc = "loop"
    /\ Len(crawl.urlsToVisit) > 0

CrawlContinues_OneMore ==
    /\ crawl.pc = "loop"
    /\ Len(crawl.urlsToVisit) > 0
    /\ Len(crawl.scrapedPages) <= crawl.maxPages

CrawlContinues ==
    /\ crawl.pc = "loop"
    /\ Len(crawl.urlsToVisit) > 0
    /\ Len(crawl.scrapedPages) < crawl.maxPages

\* if (visitedUrls.has(currentUrl)) continue
AlreadyVisited_Never(u, visited) == FALSE

AlreadyVisited(u, visited) == u \in visited

\* if (visitedUrls.has(linkUrl.href)) continue
LinkVisited_Never(href, visited) == FALSE

LinkVisited(href, visited) == href \in visited

\* the for loop over content.links: resolve, same-host test, visited test,
\* priority; an invalid href is skipped
RECURSIVE NewLinks(_, _, _)
NewLinks(links, baseHostname, visited) ==
    IF links = <<>> THEN <<>>
    ELSE LET rest == NewLinks(Tail(links), baseHostname, visited)
             href == Href(Head(links))
         IN IF href = "" THEN rest
            ELSE IF Hostname(href) # baseHostname THEN rest
            ELSE IF LinkVisited(href, visited) THEN rest
            ELSE <<[url |-> href, priority |-> Priority(href)]>> \o rest

\* newLinks.sort((a, b) => b.priority - a.priority): stable, descending
RECURSIVE InsertByPriority_TiesFirst(_, _)
InsertByPriority_TiesFirst(sorted, l) ==
    IF sorted = <<>> THEN <<l>>
    ELSE IF Head(sorted).priority > l.priority
         THEN <<Head(sorted)>> \o InsertByPriority_TiesFirst(Tail(sorted), l)
         ELSE <<l>> \o sorted

RECURSIVE InsertByPriority(_, _)
InsertByPriority(sorted, l) ==
    IF sorted = <<>> THEN <<l>>
    ELSE IF Head(sorted).priority >= l.priority
         THEN <<Head(sorted)>> \o InsertByPriority(Tail(sorted), l)
         ELSE <<l>> \o sorted

RECURSIVE SortByPriority(_)
SortByPriority(ls) ==
    IF ls = <<>> THEN <<>>
    ELSE InsertByPriority(SortByPriority(SubSeq(ls, 1, Len(ls) - 1)), ls[Len(ls)])

\* .filter(l => !urlsToVisit.includes(l.url)).map(l => l.url)
UniqueNewLinks_NoFilter(ls, queue) == [i \in 1..Len(ls) |-> ls[i].url]

RECURSIVE UniqueNewLinks(_, _)
UniqueNewLinks(ls, queue) ==
    IF ls = <<>> THEN <<>>
    ELSE IF Head(ls).url \in Range(queue)
         THEN UniqueNewLinks(Tail(ls), queue)
         ELSE <<Head(ls).url>> \o UniqueNewLinks(Tail(ls), queue)

\* one iteration: the popped URL was visited before
CrawlSkip ==
    /\ CrawlContinues
    /\ AlreadyVisited(Head(crawl.urlsToVisit), crawl.visitedUrls)
    /\ crawl' = [crawl EXCEPT !.urlsToVisit = Tail(@), !.newLinks = <<>>]
    /\ UNCHANGED sysVars
    /\ UNCHANGED <<rank, ck, det>>

\* one iteration: scrapePage returns the page with its (deduplicated) links
CrawlFetch ==
    /\ CrawlContinues
    /\ ~AlreadyVisited(Head(crawl.urlsToVisit), crawl.visitedUrls)
    /\ \E links \in DistinctSeqs(Hrefs, MaxLinks) :
        LET currentUrl == Head(crawl.urlsToVisit)
            queue == Tail(crawl.urlsToVisit)
            visited == crawl.visitedUrls \cup {currentUrl}
            found == NewLinks(links, crawl.baseHostname, visited)
            newLinks == SortByPriority(found)
        IN crawl' = [crawl EXCEPT
                        !.newLinks = found,
                        !.scrapedPages = Append(@, currentUrl),
                        !.visitedUrls = visited,
                        !.urlsToVisit = queue \o UniqueNewLinks(newLinks, queue),
                        !.attempts = Append(@, [url |-> currentUrl, ok |-> TRUE]),
                        !.relinked = @ \/ \E i \in 1..Len(links) :
                                             Href(links[i]) \in crawl.visitedUrls]
    /\ UNCHANGED sysVars
    /\ UNCHANGED <<rank, ck, det>>

\* one iteration: scrapePage throws; the error is logged
CrawlFetchFails_MarkedVisited ==
    /\ CrawlContinues
    /\ ~AlreadyVisited(Head(crawl.urlsToVisit), crawl.visitedUrls)
    /\ crawl' = [crawl EXCEPT !.urlsToVisit = Tail(@),
                    !.visitedUrls = @ \cup {Head(crawl.urlsToVisit)},
                    !.attempts = Append(@, [url |-> Head(crawl.urlsToVisit), ok |-> FALSE]),
                    !.newLinks = <<>>]
    /\ UNCHANGED sysVars
    /\ UNCHANGED <<rank, ck, det>>

CrawlFetchFails_Rethrown ==
    /\ CrawlContinues
    /\ ~AlreadyVisited(Head(crawl.urlsToVisit), crawl.visitedUrls)
    /\ crawl' = [crawl EXCEPT !.pc = "done", !.urlsToVisit = Tail(@),
                    !.attempts = Append(@, [url |-> Head(crawl.urlsToVisit), ok |-> FALSE]),
                    !.newLinks = <<>>]
    /\ UNCHANGED sysVars
    /\ UNCHANGED <<rank, ck, det>>

CrawlFetchFails ==
    /\ CrawlContinues
    /\ ~AlreadyVisited(Head(crawl.urlsToVisit), crawl.visitedUrls)
    /\ crawl' = [crawl EXCEPT !.urlsToVisit = Tail(@),
                    !.attempts = Append(@, [url |-> Head(crawl.urlsToVisit), ok |-> FALSE]),
                    !.newLinks = <<>>]
    /\ UNCHANGED sysVars
    /\ UNCHANGED <<rank, ck, det>>

\* the loop condition is false: return scrapedPages
CrawlReturn ==
    /\ crawl.pc = "loop"
    /\ ~CrawlContinues
    /\ crawl' = [crawl EXCEPT !.pc = "done", !.newLinks = <<>>]
    /\ UNCHANGED sysVars
    /\ UNCHANGED <<rank, ck, det>>

CrawlNext ==
    \/ SitemapProbeFails
    \/ SitemapProbeRobots
    \/ SitemapProbeXml
    \/ SitemapReturn
    \/ CrawlSkip
    \/ CrawlFetch
    \/ CrawlFetchFails
    \/ CrawlReturn

CrawlSpec == CrawlInit /\ [][CrawlNext]_vars

\* C2: in one crawl run no URL appears twice in the sequence of returned pages.
C2_NoUrlTwice == NoRepeat(crawl.scrapedPages)

C2_Witness ==
    /\ crawl.pc = "done"
    /\ Len(crawl.scrapedPages) >= 2
    /\ \E u \in crawl.visitedUrls : u \in Range(crawl.urlsToVisit)

\* =====================================================================
\* RAGService.findRelevantChunks: the retrieval ranker
\* =====================================================================

MaxStore == 3
MaxTopK == 3

\* embedding vectors (dimension 2); <<1, 0>> and <<2, 0>> have equal cosines
ChunkVectors == { <<1, 0>>, <<2, 0>>, <<0, 1>>, <<-1, 0>>, <<1, 1>> }
QueryVectors == { <<1, 0>>, <<0, 1>>, <<1, 1>> }

\* JSON.stringify(chunk.embedding) and JSON.parse(chunk.embedding)
JsonStringify(v) == [json |-> v]
JsonParse(t) == t.json

\* vecA.reduce((sum, a, i) => sum + a * vecB[i], 0)
RECURSIVE DotProduct(_, _)
DotProduct(a, b) ==
    IF a = <<>> THEN 0
    ELSE a[Len(a)] * b[Len(a)] + DotProduct(SubSeq(a, 1, Len(a) - 1), b)

\* dotProduct / (magnitudeA * magnitudeB), kept exact: the pair <<n, d>> is
\* the fraction n/d = sign(dot) * dot^2 / (|a|^2 |b|^2), the signed square of
\* the cosine, which orders as the cosine does.  d > 0 for non-zero vectors.
CosineSimilarity(a, b) ==
    LET dot == DotProduct(a, b)
    IN << (IF dot < 0 THEN -1 ELSE 1) * dot * dot,
          DotProduct(a, a) * DotProduct(b, b) >>

\* x - y > 0, x - y = 0 or x - y < 0 for two similarities
SimGreater(x, y) == x[1] * y[2] > y[1] * x[2]

\* the comparator (a, b) => b.similarity - a.similarity is positive:
\* b goes before a
ComparatorPositive_Ascending(a, b) == SimGreater(a.similarity, b.similarity)

ComparatorPositive(a, b) == SimGreater(b.similarity, a.similarity)

\* Array.prototype.sort (stable) with that comparator
RECURSIVE InsertRanked(_, _)
InsertRanked(sorted, c) ==
    IF sorted = <<>> THEN <<c>>
    ELSE IF ComparatorPositive(Head(sorted), c)
         THEN <<c>> \o sorted
         ELSE <<Head(sorted)>> \o InsertRanked(Tail(sorted), c)

RECURSIVE SortRanked(_)
SortRanked(cs) ==
    IF cs = <<>> THEN <<>>
    ELSE InsertRanked(SortRanked(SubSeq(cs, 1, Len(cs) - 1)), cs[Len(cs)])

\* Array.prototype.slice(0, k) for k >= 0
SliceTo(q, k) == SubSeq(q, 1, Min(k, Len(q)))

\* prisma.websiteChunk.findMany({where: {websiteId}})
RECURSIVE FindMany(_, _)
FindMany(store, websiteId) ==
    IF store = <<>> THEN <<>>
    ELSE IF Head(store).websiteId = websiteId
         THEN <<Head(store)>> \o FindMany(Tail(store), websiteId)
         ELSE FindMany(Tail(store), websiteId)

\* chunks.map(chunk => ({content, metadata, similarity}))
RankedChunks(chunks, queryEmbedding) ==
    [i \in 1..Len(chunks) |->
        [content |-> chunks[i].content,
         similarity |-> CosineSimilarity(queryEmbedding, JsonParse(chunks[i].embedding))]]

FindRelevantChunks(store, websiteId, queryEmbedding, topK) ==
    SliceTo(SortRanked(RankedChunks(FindMany(store, websiteId), queryEmbedding)), topK)

\* chunk rows; the content of the row at position i is i
StoreRows == [websiteId : WebsiteIds, embedding : { JsonStringify(v) : v \in ChunkVectors }]

NumberRows(rows) ==
    [i \in 1..Len(rows) |->
        [websiteId |-> rows[i].websiteId, content |-> i, embedding |-> rows[i].embedding]]

RankInit ==
    /\ \E rows \in SeqsUpTo(StoreRows, MaxStore), w \in WebsiteIds,
          q \in QueryVectors, k \in 0..MaxTopK :
          rank = [pc |-> "call", store |-> NumberRows(rows), websiteId |-> w,
                  query |-> q, topK |-> k, result |-> <<>>]
    /\ websites = [w \in WebsiteIds |-> "absent"]
    /\ statusLog = [w \in WebsiteIds |-> <<>>]
    /\ website_chunks = {}
    /\ website_chats = {}
    /\ website_chat_messages = {}
    /\ nextChatId = 1
    /\ job = [w \in WebsiteIds |-> JobIdle]
    /\ post = [r \in PostIds |-> PostIdle]
    /\ get = [g \in GetIds |-> GetIdle]
    /\ crawl = CrawlIdle
    /\ ck = ChunkIdle
    /\ det = DetectIdle

\* findRelevantChunks returns the ranked chunks
RankReturn ==
    /\ rank.pc = "call"
    /\ rank' = [rank EXCEPT !.pc = "done",
                   !.result = FindRelevantChunks(rank.store, rank.websiteId,
                                                 rank.query, rank.topK)]
    /\ UNCHANGED sysVars
    /\ UNCHANGED <<crawl, ck, det>>

\* createEmbedding(query) throws: findRelevantChunks rejects
RankThrows ==
    /\ rank.pc = "call"
    /\ rank' = [rank EXCEPT !.pc = "threw"]
    /\ UNCHANGED sysVars
    /\ UNCHANGED <<crawl, ck, det>>

RankNext == RankReturn \/ RankThrows

RankSpec == RankInit /\ [][RankNext]_vars

\* C7: findRelevantChunks returns exactly min(topK, number of the website's
\* chunks) results, in non-increasing order of similarity, each one a chunk
\* of that website with its similarity to the query, none repeated; for
\* topK = 0 the result is empty.
C7_TopKSortedDescending ==
    rank.pc = "done" =>
        LET res == rank.result
            own == { i \in 1..Len(rank.store) : rank.store[i].websiteId = rank.websiteId }
        IN /\ Len(res) = Min(rank.topK, Cardinality(own))
           /\ rank.topK = 0 => res = <<>>
           /\ \A i \in 1..Len(res) : \A k \in 1..Len(res) :
                 i < k => /\ ~SimGreater(res[k].similarity, res[i].similarity)
                          /\ res[i].content # res[k].content
           /\ \A i \in 1..Len(res) :
                 /\ res[i].content \in own
                 /\ res[i].similarity =
                       CosineSimilarity(rank.query,
                                        rank.store[res[i].content].embedding.json)
           \* nothing left out ranks above something returned
           /\ \A c \in own : \A i \in 1..Len(res) :
                 c \notin { res[k].content : k \in 1..Len(res) } =>
                     ~SimGreater(CosineSimilarity(rank.query,
                                                  rank.store[c].embedding.json),
                                 res[i].similarity)

C7_Witness ==
    /\ rank.pc = "done"
    /\ Len(rank.result) = rank.topK
    /\ Len(rank.result) >= 2
    /\ Len(FindMany(rank.store, rank.websiteId)) > rank.topK
    /\ SimGreater(rank.result[1].similarity, rank.result[2].similarity)
    /\ rank.result[1].content > rank.result[2].content

\* =====================================================================
\* AdaptiveChunkerService.chunkText
\* =====================================================================

MaxTokens == 4
MaxSize == 3

\* A text is a sequence of characters (one-character strings).
NL == "\n"
IsSpace(c) == c \in {" ", NL}

\* the pieces the input texts are built from
Tokens == { <<"a">>, <<" ">>, <<".", " ">>, <<NL>>, <<"#", " ", "a">> }

RECURSIVE Flatten(_)
Flatten(parts) ==
    IF parts = <<>> THEN <<>> ELSE Head(parts) \o Flatten(Tail(parts))

RECURSIVE Repeat(_, _)
Repeat(t, n) == IF n = 0 THEN <<>> ELSE t \o Repeat(t, n - 1)

TokenTexts == { Flatten(parts) : parts \in SeqsUpTo(Tokens, MaxTokens) }

Modes == {"page", "paragraph", "section", "heading"}

\* strategies with 0 < preferredSize and 0 <= overlap < preferredSize
SmallStrategies ==
    { st \in [preferredSize : 1..MaxSize, overlap : 0..(MaxSize - 1)] :
          st.overlap < st.preferredSize }

\* a text of n copies of the character c
Fill(c, n) == [i \in 1..n |-> c]

\* longer inputs: a heading longer than 1.5 * preferredSize followed by empty
\* lines, newlines just past the middle of every paragraph window, many
\* one-character sections, a long all-caps heading, a paragraph text with
\* one newline past the middle of its second window
StressInputs ==
    { [text |-> <<"a", NL>> \o <<"#", " ", "b", "b", "b", "b", "b">> \o Repeat(<<NL>>, 10),
       preferredSize |-> 4, overlap |-> 0, respectBoundaries |-> "heading"],
      [text |-> Repeat(<<"a", "a", "a", "a", "a", NL>>, 20),
       preferredSize |-> 8, overlap |-> 0, respectBoundaries |-> "paragraph"],
      [text |-> Repeat(<<"a", NL, NL>>, 12),
       preferredSize |-> 8, overlap |-> 0, respectBoundaries |-> "section"],
      [text |-> Repeat(<<"a", " ", "b", " ", "c", NL, NL>>, 4),
       preferredSize |-> 8, overlap |-> 5, respectBoundaries |-> "section"],
      [text |-> <<"a", "a", NL>> \o Repeat(<<"A">>, 11) \o <<NL, "a">>,
       preferredSize |-> 6, overlap |-> 1, respectBoundaries |-> "heading"],
      [text |-> Fill("a", 11) \o <<NL>> \o Fill("a", 12),
       preferredSize |-> 8, overlap |-> 2, respectBoundaries |-> "paragraph"] }

\* texts without sentence terminators and newlines under the blog strategy
\* (preferredSize 1000, overlap 200, paragraph), and the same shape at one
\* hundredth of the size with every arrangement of five-character blocks of
\* letters and blanks
ScenarioInputs ==
    { [text |-> t, preferredSize |-> 1000, overlap |-> 200,
       respectBoundaries |-> "paragraph"] :
          t \in { Fill("a", 2500), Fill(" ", 2500),
                  Fill("a", 800) \o Fill(" ", 1000) \o Fill("a", 700) } }
    \cup
    { [text |-> Flatten(blocks), preferredSize |-> 10, overlap |-> 2,
       respectBoundaries |-> "paragraph"] :
          blocks \in [1..5 -> { Fill("a", 5), Fill(" ", 5) }] }

ChunkInputs ==
    { [text |-> t, preferredSize |-> st.preferredSize, overlap |-> st.overlap,
       respectBoundaries |-> m] : t \in TokenTexts, st \in SmallStrategies, m \in Modes }
    \cup StressInputs
    \cup ScenarioInputs

\* String.prototype.slice(a, b) for 0 <= a
Slice(t, a, b) == SubSeq(t, a + 1, Min(b, Len(t)))

\* String.prototype.trim
NonSpace(t) == { i \in 1..Len(t) : ~IsSpace(t[i]) }

TrimStart(t) ==
    IF NonSpace(t) = {} THEN <<>>
    ELSE SubSeq(t, CHOOSE i \in NonSpace(t) : \A k \in NonSpace(t) : i <= k, Len(t))

TrimEnd(t) ==
    IF NonSpace(t) = {} THEN <<>>
    ELSE SubSeq(t, 1, CHOOSE i \in NonSpace(t) : \A k \in NonSpace(t) : k <= i)

Trim(t) == TrimEnd(TrimStart(t))

\* String.prototype.lastIndexOf(pattern): 0-based, -1 when absent
LastIndexOf(t, pattern) ==
    LET hits == { i \in 0..(Len(t) - Len(pattern)) :
                     SubSeq(t, i + 1, i + Len(pattern)) = pattern }
    IN IF hits = {} THEN -1 ELSE CHOOSE i \in hits : \A k \in hits : k <= i

\* text.split('\n'): the lines, at least one
RECURSIVE SplitLines(_, _)
SplitLines(t, cur) ==
    IF t = <<>> THEN <<cur>>
    ELSE IF Head(t) = NL THEN <<cur>> \o SplitLines(Tail(t), <<>>)
    ELSE SplitLines(Tail(t), Append(cur, Head(t)))

\* currentChunk.split(' ')
RECURSIVE SplitSpaces(_, _)
SplitSpaces(t, cur) ==
    IF t = <<>> THEN <<cur>>
    ELSE IF Head(t) = " " THEN <<cur>> \o SplitSpaces(Tail(t), <<>>)
    ELSE SplitSpaces(Tail(t), Append(cur, Head(t)))

\* words.join(' ')
RECURSIVE JoinSpaces(_)
JoinSpaces(ws) ==
    IF ws = <<>> THEN <<>>
    ELSE IF Len(ws) = 1 THEN ws[1]
    ELSE ws[1] \o <<" ">> \o JoinSpaces(Tail(ws))

\* text.split(/\n\n+/): a run of two or more newlines separates two blocks
RECURSIVE SkipNewlines(_)
SkipNewlines(t) == IF t # <<>> /\ Head(t) = NL THEN SkipNewlines(Tail(t)) ELSE t

RECURSIVE SplitSections(_, _)
SplitSections(t, cur) ==
    IF t = <<>> THEN <<cur>>
    ELSE IF Len(t) >= 2 /\ t[1] = NL /\ t[2] = NL
         THEN <<cur>> \o SplitSections(SkipNewlines(t), <<>>)
    ELSE SplitSections(Tail(t), Append(cur, Head(t)))

\* Array.prototype.slice(-n): the last n elements; slice(-0) is slice(0)
SliceLast(ws, n) ==
    IF n = 0 THEN ws
    ELSE SubSeq(ws, Max(1, Len(ws) - n + 1), Len(ws))

\* overlapWords.join(' ') with overlapWords = words.slice(-Math.floor(overlap / 5))
OverlapWords(currentChunk, overlap) ==
    JoinSpaces(SliceLast(SplitSpaces(currentChunk, <<>>), overlap \div 5))

\* /^(#{1,6}\s+.+|[A-Z][A-Z\s]{10,})$/ matched from index 0 of a line
HashPrefix(line) ==
    IF \E k \in 1..Len(line) : line[k] # "#"
    THEN (CHOOSE k \in 1..Len(line) : line[k] # "#" /\ \A i \in 1..(k - 1) : line[i] = "#") - 1
    ELSE Len(line)

MatchesHeading(line) ==
    \/ LET k == HashPrefix(line)
       IN /\ k >= 1 /\ k <= 6
          /\ Len(line) >= k + 2
          /\ IsSpace(line[k + 1])
    \/ /\ Len(line) >= 11
       /\ line[1] = "A"
       /\ \A i \in 2..Len(line) : line[i] = "A" \/ IsSpace(line[i])

\* headingRegex.test(line) for the global (g) regex: the search starts at
\* lastIndex, and ^ matches only at index 0 of a line without line breaks
RegexTest(line, lastIndex) == lastIndex = 0 /\ MatchesHeading(line)

\* lastIndex after test: the end of the match, or 0 after a failed search
RegexLastIndex(line, lastIndex) ==
    IF RegexTest(line, lastIndex) THEN Len(line) ELSE 0

\* return chunks.length > 0 ? chunks : [text]
Fallback_None(chunks, text) == chunks

Fallback(chunks, text) == IF Len(chunks) > 0 THEN chunks ELSE <<text>>

\* if (x.trim().length > 0) chunks.push(x.trim())
PushIfNonEmpty(chunks, x) ==
    IF Len(Trim(x)) > 0 THEN Append(chunks, Trim(x)) ELSE chunks

ChunkInit ==
    /\ \E in \in ChunkInputs :
          ck = [pc |-> in.respectBoundaries,
                text |-> in.text,
                preferredSize |-> in.preferredSize,
                overlap |-> in.overlap,
                respectBoundaries |-> in.respectBoundaries,
                startIndex |-> 0,
                rest |-> IF in.respectBoundaries = "section"
                            THEN SplitSections(in.text, <<>>)
                         ELSE IF in.respectBoundaries = "heading"
                            THEN SplitLines(in.text, <<>>)
                         ELSE <<>>,
                currentChunk |-> <<>>,
                lastHeading |-> <<>>,
                lastIndex |-> 0,
                chunks |-> <<>>,
                windows |-> <<>>,
                chunkEnds |-> <<>>,
                iter |-> 0,
                result |-> <<>>]
    /\ websites = [w \in WebsiteIds |-> "absent"]
    /\ statusLog = [w \in WebsiteIds |-> <<>>]
    /\ website_chunks = {}
    /\ website_chats = {}
    /\ website_chat_messages = {}
    /\ nextChatId = 1
    /\ job = [w \in WebsiteIds |-> JobIdle]
    /\ post = [r \in PostIds |-> PostIdle]
    /\ get = [g \in GetIds |-> GetIdle]
    /\ crawl = CrawlIdle
    /\ rank = RankIdle
    /\ det = DetectIdle

\* case 'page': return [text]
PageResult_Trimmed(text) == <<Trim(text)>>

PageResult(text) == <<text>>

ChunkPage ==
    /\ ck.pc = "page"
    /\ ck' = [ck EXCEPT !.pc = "done", !.result = PageResult(ck.text)]
    /\ UNCHANGED sysVars
    /\ UNCHANGED <<crawl, rank, det>>

\* startIndex += breakPoint + 1
AdvancePastBreak_Absolute(startIndex, breakPoint) == breakPoint + 1

AdvancePastBreak_SkipsOne(startIndex, breakPoint) == startIndex + breakPoint + 2

AdvancePastBreak(startIndex, breakPoint) == startIndex + breakPoint + 1

\* startIndex += chunkSize - overlap
Stride_NoOverlap(chunkSize, overlap) == chunkSize

Stride(chunkSize, overlap) == chunkSize - overlap

\* chunkByParagraphs: one iteration of while (startIndex < text.length).
\* The guard on iter only keeps the model finite.
ParagraphStep ==
    /\ ck.pc = "paragraph"
    /\ ck.startIndex < Len(ck.text)
    /\ ck.iter <= Len(ck.text)
    /\ LET chunkSize == ck.preferredSize
           endIndex == Min(ck.startIndex + chunkSize, Len(ck.text))
           window == Slice(ck.text, ck.startIndex, endIndex)
           breakPoint == Max(LastIndexOf(window, <<".", " ">>),
                             LastIndexOf(window, <<NL>>))
           atBreak == endIndex < Len(ck.text) /\ 2 * breakPoint > chunkSize
           chunk == IF atBreak THEN Slice(window, 0, breakPoint + 1) ELSE window
           next == IF endIndex < Len(ck.text)
                   THEN IF atBreak
                        THEN AdvancePastBreak(ck.startIndex, breakPoint)
                        ELSE ck.startIndex + Stride(chunkSize, ck.overlap)
                   ELSE Len(ck.text)
       IN ck' = [ck EXCEPT !.startIndex = next,
                           !.chunks = PushIfNonEmpty(@, chunk),
                           !.windows = Append(@, <<ck.startIndex, endIndex>>),
                           !.chunkEnds = Append(@, ck.startIndex + Len(chunk)),
                           !.iter = @ + 1]
    /\ UNCHANGED sysVars
    /\ UNCHANGED <<crawl, rank, det>>

\* chunkByParagraphs: return chunks
ParagraphReturn ==
    /\ ck.pc = "paragraph"
    /\ ck.startIndex >= Len(ck.text)
    /\ ck' = [ck EXCEPT !.pc = "done", !.result = ck.chunks]
    /\ UNCHANGED sysVars
    /\ UNCHANGED <<crawl, rank, det>>

\* chunkBySections: one iteration of for (const section of sections)
SectionStep ==
    /\ ck.pc = "section"
    /\ ck.rest # <<>>
    /\ LET section == Head(ck.rest)
           cur == ck.currentChunk
       IN IF Len(cur) + Len(section) > ck.preferredSize /\ Len(cur) > 0
          THEN ck' = [ck EXCEPT
                         !.chunks = Append(@, Trim(cur)),
                         !.currentChunk =
                             OverlapWords(cur, ck.overlap) \o <<NL, NL>> \o section,
                         !.rest = Tail(@), !.iter = @ + 1]
          ELSE ck' = [ck EXCEPT
                         !.currentChunk =
                             cur \o (IF cur # <<>> THEN <<NL, NL>> ELSE <<>>) \o section,
                         !.rest = Tail(@), !.iter = @ + 1]
    /\ UNCHANGED sysVars
    /\ UNCHANGED <<crawl, rank, det>>

\* chunkBySections: the last push and the return
SectionReturn ==
    /\ ck.pc = "section"
    /\ ck.rest = <<>>
    /\ LET chunks == PushIfNonEmpty(ck.chunks, ck.currentChunk)
       IN ck' = [ck EXCEPT !.pc = "done", !.chunks = chunks,
                           !.result = Fallback(chunks, ck.text)]
    /\ UNCHANGED sysVars
    /\ UNCHANGED <<crawl, rank, det>>

\* chunkByHeadings: one iteration of for (const line of lines)
HeadingStep ==
    /\ ck.pc = "heading"
    /\ ck.rest # <<>>
    /\ LET line == Head(ck.rest)
           isHeading == RegexTest(line, ck.lastIndex)
           closes == isHeading /\ 10 * Len(ck.currentChunk) > 3 * ck.preferredSize
           chunks1 == IF closes THEN Append(ck.chunks, Trim(ck.currentChunk))
                                ELSE ck.chunks
           cur1 == IF closes THEN line ELSE ck.currentChunk \o <<NL>> \o line
           heading1 == IF closes THEN line ELSE ck.lastHeading
           tooLarge == 2 * Len(cur1) > 3 * ck.preferredSize
       IN ck' = [ck EXCEPT
                    !.chunks = IF tooLarge THEN Append(chunks1, Trim(cur1)) ELSE chunks1,
                    !.currentChunk = IF tooLarge THEN heading1 ELSE cur1,
                    !.lastHeading = heading1,
                    !.lastIndex = RegexLastIndex(line, ck.lastIndex),
                    !.rest = Tail(@), !.iter = @ + 1]
    /\ UNCHANGED sysVars
    /\ UNCHANGED <<crawl, rank, det>>

\* chunkByHeadings: the last push and the return
HeadingReturn ==
    /\ ck.pc = "heading"
    /\ ck.rest = <<>>
    /\ LET chunks == PushIfNonEmpty(ck.chunks, ck.currentChunk)
       IN ck' = [ck EXCEPT !.pc = "done", !.chunks = chunks,
                           !.result = Fallback(chunks, ck.text)]
    /\ UNCHANGED sysVars
    /\ UNCHANGED <<crawl, rank, det>>

ChunkNext ==
    \/ ChunkPage
    \/ ParagraphStep
    \/ ParagraphReturn
    \/ SectionStep
    \/ SectionReturn
    \/ HeadingStep
    \/ HeadingReturn

ChunkSpec == ChunkInit /\ [][ChunkNext]_vars

\* =====================================================================
\* Properties of ChunkSpec
\* =====================================================================

CeilDiv(a, b) == (a + b - 1) \div b

\* C8: every chunk returned by chunkText is non-empty after trimming, in all
\* four boundary modes and for every text.
C8_ChunksNonEmpty ==
    ck.pc = "done" => \A i \in 1..Len(ck.result) : Trim(ck.result[i]) # <<>>

\* C9 (as stated): chunkText never returns an empty list; when the mode's
\* algorithm produced zero chunks the result is the one-element list holding
\* the full text.
C9_NeverEmptyList ==
    ck.pc = "done" =>
        /\ ck.result # <<>>
        /\ (ck.respectBoundaries # "page" /\ ck.chunks = <<>>) => ck.result = <<ck.text>>

\* C9 (amended): page mode returns [text]; section and heading mode return
\* [text] when their algorithm produced zero chunks, which happens only
\* for empty or whitespace-only text, and their chunks otherwise, so these
\* three modes never return an empty list; paragraph mode has no fallback
\* and returns the empty list exactly for empty or whitespace-only text.
C9_FallbackExceptParagraph ==
    ck.pc = "done" =>
        /\ ck.respectBoundaries = "page" => ck.result = <<ck.text>>
        /\ ck.respectBoundaries \in {"section", "heading"} =>
              /\ ck.result # <<>>
              /\ ck.chunks = <<>> => Trim(ck.text) = <<>>
              /\ ck.result = (IF ck.chunks = <<>> THEN <<ck.text>> ELSE ck.chunks)
        /\ ck.respectBoundaries = "paragraph" =>
              /\ ck.result = ck.chunks
              /\ ck.result = <<>> <=> Trim(ck.text) = <<>>

C9_Witness ==
    /\ ck.pc = "done"
    /\ ck.respectBoundaries = "heading"
    /\ ck.chunks = <<>>
    /\ ck.text # <<>>
    /\ ck.result = <<ck.text>>

\* C10 (as stated): the number of chunks is at most
\* ceil(len(T) / (P - O)) plus a small constant (here 4).
C10_BoundedByStride ==
    ck.pc = "done" =>
        Len(ck.result) <=
            CeilDiv(Len(ck.text), ck.preferredSize - ck.overlap) + 4

\* the least advance of startIndex in one paragraph iteration that does not
\* reach the end of the text: the stride P - O, or a cut past the middle
MinAdvance(P, O) == Min(P - O, (P \div 2) + 2)

\* C10 (amended): chunkText terminates: the paragraph loop runs at most
\* ceil(len(T) / min(P - O, floor(P/2) + 2)) times and the section and
\* heading loops once per block or line; the number of chunks is at most
\* len(T) + 1 in every mode, and in paragraph mode at most the number of
\* iterations.
C10_TerminatesLinearCount ==
    /\ ck.pc # "off" => ck.iter <= Len(ck.text) + 1
    /\ ck.pc \in {"paragraph", "done"} /\ ck.respectBoundaries = "paragraph" =>
          /\ ck.iter <= CeilDiv(Len(ck.text), MinAdvance(ck.preferredSize, ck.overlap))
          /\ Len(ck.chunks) <= ck.iter
    /\ ck.pc = "done" => Len(ck.result) <= Len(ck.text) + 1

C10_Witness ==
    /\ ck.pc = "done"
    /\ ck.respectBoundaries = "paragraph"
    /\ Len(ck.result) > CeilDiv(Len(ck.text), ck.preferredSize - ck.overlap) + 4

\* C11: in page mode chunkText returns exactly the one-element list holding
\* the text unchanged (not trimmed, not split), whatever preferredSize and
\* overlap are.
C11_PageModeIdentity ==
    (ck.pc = "done" /\ ck.respectBoundaries = "page") =>
        /\ Len(ck.result) = 1
        /\ ck.result[1] = ck.text
        /\ ck.chunks = <<>>

C11_Witness ==
    /\ ck.pc = "done"
    /\ ck.respectBoundaries = "page"
    /\ Len(ck.text) > ck.preferredSize
    /\ Trim(ck.text) # ck.text
    /\ ck.overlap > 0
    /\ ck.result = <<ck.text>>

\* the text holds no '. ' and no newline
NoBreaks(t) == LastIndexOf(t, <<".", " ">>) = -1 /\ LastIndexOf(t, <<NL>>) = -1

\* window i starts at (i - 1)(P - O) and has length min(P, remaining length)
FixedStrideWindows ==
    \A i \in 1..Len(ck.windows) :
        LET start == (i - 1) * (ck.preferredSize - ck.overlap)
        IN ck.windows[i] = <<start, Min(start + ck.preferredSize, Len(ck.text))>>

\* C20 (as stated): for a text of length 2500 without '. ' and newline, with
\* preferredSize 1000, overlap 200 and paragraph mode, chunkText returns
\* exactly 3 chunks, none empty; in general the windows of such a text start
\* at 0, P-O, 2(P-O), ... and each has length min(P, remaining length).
C20_ThreeChunks ==
    (ck.pc = "done" /\ ck.respectBoundaries = "paragraph" /\ NoBreaks(ck.text)) =>
        /\ FixedStrideWindows
        /\ (Len(ck.text) = 2500 /\ ck.preferredSize = 1000 /\ ck.overlap = 200) =>
              /\ Len(ck.result) = 3
              /\ \A i \in 1..3 : ck.result[i] # <<>>

\* C20 (amended): for a text without '. ' and newline the windows of
\* paragraph mode start at 0, P-O, 2(P-O), ... and each has length
\* min(P, remaining length); the last window is the first that reaches the
\* end of the text, so a text of length 2500 with preferredSize 1000 and
\* overlap 200 has exactly 3 windows; the chunks are the trimmed windows that
\* are not whitespace-only, in order, so there are exactly 3 chunks, none
\* empty, when no window is whitespace-only, and fewer otherwise.
C20_FixedStrideWindows ==
    (ck.pc = "done" /\ ck.respectBoundaries = "paragraph" /\ NoBreaks(ck.text)) =>
        LET n == Len(ck.windows)
            P == ck.preferredSize
            O == ck.overlap
            window(i) == Slice(ck.text, ck.windows[i][1], ck.windows[i][2])
            kept == { i \in 1..n : Trim(window(i)) # <<>> }
        IN /\ FixedStrideWindows
           /\ Len(ck.text) > 0 =>
                 /\ n >= 1
                 /\ (n - 1) * (P - O) + P >= Len(ck.text)
                 /\ n > 1 => (n - 2) * (P - O) + P < Len(ck.text)
           /\ (Len(ck.text) = 2500 /\ P = 1000 /\ O = 200) => n = 3
           /\ Len(ck.result) = Cardinality(kept)
           /\ \A j \in 1..Len(ck.result) :
                 /\ ck.result[j] # <<>>
                 /\ \E i \in kept :
                       /\ ck.result[j] = Trim(window(i))
                       /\ Cardinality({ k \in kept : k <= i }) = j

C20_Witness ==
    /\ ck.pc = "done"
    /\ ck.respectBoundaries = "paragraph"
    /\ NoBreaks(ck.text)
    /\ Len(ck.text) = 2500 /\ ck.preferredSize = 1000 /\ ck.overlap = 200
    /\ Len(ck.windows) = 3
    /\ Len(ck.result) = 2

\* =====================================================================
\* SiteDetectorService.detectSiteType
\* =====================================================================

MaxMatched == 3

\* Object.entries(scores): the keys in insertion order
TypeOrder == <<"blog", "documentation", "ecommerce", "marketing", "news",
               "forum", "unknown">>

SiteTypes == { TypeOrder[i] : i \in 1..Len(TypeOrder) }

\* the if statements of detectSiteType in source order: the type whose score
\* grows, the points, the recorded description, and whether the test is on
\* the url (TRUE) or on the parsed document (FALSE)
Indicators ==
    << [type |-> "blog", points |-> 20, text |-> "Post classes found", onUrl |-> FALSE],
       [type |-> "blog", points |-> 20, text |-> "Article classes found", onUrl |-> FALSE],
       [type |-> "blog", points |-> 15, text |-> "Author elements found", onUrl |-> FALSE],
       [type |-> "blog", points |-> 25, text |-> "Article meta tags found", onUrl |-> FALSE],
       [type |-> "blog", points |-> 10, text |-> "Comment section found", onUrl |-> FALSE],
       [type |-> "blog", points |-> 15, text |-> "Blog-related URL", onUrl |-> TRUE],
       [type |-> "documentation", points |-> 25, text |-> "Navigation sidebar/TOC found", onUrl |-> FALSE],
       [type |-> "documentation", points |-> 20, text |-> "Many code blocks found", onUrl |-> FALSE],
       [type |-> "documentation", points |-> 15, text |-> "Breadcrumb navigation found", onUrl |-> FALSE],
       [type |-> "documentation", points |-> 25, text |-> "Documentation URL pattern", onUrl |-> TRUE],
       [type |-> "documentation", points |-> 10, text |-> "Many headings (structured content)", onUrl |-> FALSE],
       [type |-> "ecommerce", points |-> 25, text |-> "Product elements found", onUrl |-> FALSE],
       [type |-> "ecommerce", points |-> 20, text |-> "Price elements found", onUrl |-> FALSE],
       [type |-> "ecommerce", points |-> 25, text |-> "Shopping cart found", onUrl |-> FALSE],
       [type |-> "ecommerce", points |-> 20, text |-> "Buy buttons found", onUrl |-> FALSE],
       [type |-> "ecommerce", points |-> 25, text |-> "Product meta tags found", onUrl |-> FALSE],
       [type |-> "ecommerce", points |-> 15, text |-> "E-commerce URL pattern", onUrl |-> TRUE],
       [type |-> "marketing", points |-> 15, text |-> "Hero/banner section found", onUrl |-> FALSE],
       [type |-> "marketing", points |-> 20, text |-> "Multiple CTAs found", onUrl |-> FALSE],
       [type |-> "marketing", points |-> 15, text |-> "Testimonials found", onUrl |-> FALSE],
       [type |-> "marketing", points |-> 20, text |-> "Pricing section found", onUrl |-> FALSE],
       [type |-> "marketing", points |-> 15, text |-> "Lead capture form found", onUrl |-> FALSE],
       [type |-> "news", points |-> 20, text |-> "Multiple headlines found", onUrl |-> FALSE],
       [type |-> "news", points |-> 15, text |-> "Many timestamps found", onUrl |-> FALSE],
       [type |-> "news", points |-> 20, text |-> "Breaking/latest news indicators", onUrl |-> FALSE],
       [type |-> "news", points |-> 15, text |-> "News URL pattern", onUrl |-> TRUE],
       [type |-> "forum", points |-> 25, text |-> "Thread/topic elements found", onUrl |-> FALSE],
       [type |-> "forum", points |-> 20, text |-> "Many posts/replies found", onUrl |-> FALSE],
       [type |-> "forum", points |-> 15, text |-> "User/member indicators", onUrl |-> FALSE],
       [type |-> "forum", points |-> 20, text |-> "Forum URL pattern", onUrl |-> TRUE] >>

IndicatorIds == 1..Len(Indicators)
UrlIndicators == { i \in IndicatorIds : Indicators[i].onUrl }
DomIndicators == IndicatorIds \ UrlIndicators
OfType(t) == { i \in IndicatorIds : Indicators[i].type = t }

\* subsets of S with at most n elements
RECURSIVE SubsetsUpTo(_, _)
SubsetsUpTo(S, n) ==
    IF n = 0 THEN { {} }
    ELSE LET smaller == SubsetsUpTo(S, n - 1)
         IN smaller \cup { T \cup {x} : T \in smaller, x \in S }

\* An HTML document is given by the selector conditions it makes true;
\* cheerio.load('') is the document in which no selector finds an element.
\* A url is given by the url patterns it matches.
EmptyHtml == [empty |-> TRUE, dom |-> {}]

\* the (html, url) inputs: every combination of at most MaxMatched
\* conditions, every combination within one type, all conditions at once,
\* and the empty document with every combination of url patterns
DetectInputs ==
    { [html |-> [empty |-> FALSE, dom |-> f \cap DomIndicators],
       url |-> f \cap UrlIndicators] :
          f \in SubsetsUpTo(IndicatorIds, MaxMatched)
                \cup UNION { SUBSET OfType(t) : t \in SiteTypes }
                \cup { IndicatorIds } }
    \cup { [html |-> EmptyHtml, url |-> u] : u \in SUBSET UrlIndicators }

\* the conditions of the if statements that hold for (html, url)
Matched(html, url) == html.dom \cup url

\* scores[type] after all if statements
RECURSIVE SumPoints(_)
SumPoints(ids) ==
    IF ids = {} THEN 0
    ELSE LET i == CHOOSE x \in ids : TRUE
         IN Indicators[i].points + SumPoints(ids \ {i})

Scores(matched) ==
    [t \in SiteTypes |-> SumPoints(matched \cap OfType(t))]

\* indicators after all if statements: the descriptions in source order
RECURSIVE Descriptions(_, _)
Descriptions(matched, i) ==
    IF i > Len(Indicators) THEN <<>>
    ELSE (IF i \in matched THEN <<Indicators[i].text>> ELSE <<>>)
         \o Descriptions(matched, i + 1)

\* if (score > maxScore)
Exceeds_OrEqual(score, maxScore) == score >= maxScore

Exceeds(score, maxScore) == score > maxScore

\* Math.min(maxScore / 100, 1), in hundredths
Confidence_Uncapped(maxScore) == maxScore

Confidence(maxScore) == Min(maxScore, 100)

\* getChunkingStrategy(type)
GetChunkingStrategy(type) ==
    CASE type = "blog" ->
           [preferredSize |-> 1000, overlap |-> 200, respectBoundaries |-> "paragraph",
            prioritySelectors |-> <<"article", "main", ".post-content", ".entry-content">>]
      [] type = "documentation" ->
           [preferredSize |-> 800, overlap |-> 150, respectBoundaries |-> "section",
            prioritySelectors |-> <<"article", "main", ".content", "[role=main]", ".markdown">>]
      [] type = "ecommerce" ->
           [preferredSize |-> 500, overlap |-> 100, respectBoundaries |-> "page",
            prioritySelectors |-> <<".product", ".item", "[itemtype*=Product]">>]
      [] type = "marketing" ->
           [preferredSize |-> 600, overlap |-> 150, respectBoundaries |-> "section",
            prioritySelectors |-> <<".hero", ".section", ".feature", "main">>]
      [] type = "news" ->
           [preferredSize |-> 1200, overlap |-> 200, respectBoundaries |-> "paragraph",
            prioritySelectors |-> <<"article", ".article-body", ".story-content">>]
      [] type = "forum" ->
           [preferredSize |-> 600, overlap |-> 100, respectBoundaries |-> "page",
            prioritySelectors |-> <<".post", ".thread", ".message">>]
      [] OTHER ->
           [preferredSize |-> 1000, overlap |-> 200, respectBoundaries |-> "paragraph",
            prioritySelectors |-> <<"article", "main", "body">>]

\* getMetadataPatterns(type): the selector lists per field; a field that is
\* not set is the empty list
NoPatterns ==
    [author |-> <<>>, date |-> <<>>, category |-> <<>>, price |-> <<>>, rating |-> <<>>]

GetMetadataPatterns(type) ==
    CASE type \in {"blog", "news"} ->
           [NoPatterns EXCEPT
              !.author = <<"meta[name=author]", "meta[property=article:author]",
                           ".author", ".byline", "[rel=author]", "[class*=author]">>,
              !.date = <<"meta[property=article:published_time]", "time[datetime]",
                         ".publish-date", ".entry-date", "[class*=date]">>,
              !.category = <<"meta[property=article:section]", ".category",
                             "[class*=category]", "a[rel=category]">>]
      [] type = "ecommerce" ->
           [NoPatterns EXCEPT
              !.price = <<"meta[property=product:price:amount]", "[class*=price]",
                          "[itemprop=price]", ".product-price">>,
              !.rating = <<"[itemprop=ratingValue]", "[class*=rating]", "[class*=stars]">>,
              !.category = <<"meta[property=product:category]", ".breadcrumb",
                             "[class*=category]">>]
      [] type = "documentation" ->
           [NoPatterns EXCEPT
              !.category = <<".breadcrumb", "nav[class*=sidebar] a.active",
                             "[class*=section]">>,
              !.date = <<"meta[name=revised]", ".last-updated", "[class*=updated]">>]
      [] type = "forum" ->
           [NoPatterns EXCEPT
              !.author = <<"[class*=username]", "[class*=member]", ".author">>,
              !.date = <<"time[datetime]", "[class*=timestamp]", "[class*=date]">>]
      [] OTHER -> NoPatterns

DetectInit ==
    /\ \E in \in DetectInputs :
          det = [pc |-> "score", html |-> in.html, url |-> in.url,
                 scores |-> [t \in SiteTypes |-> 0], indicators |-> <<>>,
                 entry |-> 1, detectedType |-> "unknown", maxScore |-> 0,
                 result |-> <<>>]
    /\ websites = [w \in WebsiteIds |-> "absent"]
    /\ statusLog = [w \in WebsiteIds |-> <<>>]
    /\ website_chunks = {}
    /\ website_chats = {}
    /\ website_chat_messages = {}
    /\ nextChatId = 1
    /\ job = [w \in WebsiteIds |-> JobIdle]
    /\ post = [r \in PostIds |-> PostIdle]
    /\ get = [g \in GetIds |-> GetIdle]
    /\ crawl = CrawlIdle
    /\ rank = RankIdle
    /\ ck = ChunkIdle

\* the detection blocks: every if statement adds its points and description
DetectScore ==
    /\ det.pc = "score"
    /\ det' = [det EXCEPT !.pc = "max",
                  !.scores = Scores(Matched(det.html, det.url)),
                  !.indicators = Descriptions(Matched(det.html, det.url), 1)]
    /\ UNCHANGED sysVars
    /\ UNCHANGED <<crawl, rank, ck>>

\* "Find highest score": one iteration of the loop over Object.entries(scores)
DetectMaxStep ==
    /\ det.pc = "max"
    /\ det.entry <= Len(TypeOrder)
    /\ LET type == TypeOrder[det.entry]
           score == det.scores[type]
       IN IF Exceeds(score, det.maxScore)
          THEN det' = [det EXCEPT !.maxScore = score, !.detectedType = type,
                                  !.entry = @ + 1]
          ELSE det' = [det EXCEPT !.entry = @ + 1]
    /\ UNCHANGED sysVars
    /\ UNCHANGED <<crawl, rank, ck>>

\* confidence, strategy, patterns and the returned SiteStructure
DetectReturn ==
    /\ det.pc = "max"
    /\ det.entry > Len(TypeOrder)
    /\ det' = [det EXCEPT !.pc = "done",
                  !.result = <<[type |-> det.detectedType,
                                confidence |-> Confidence(det.maxScore),
                                indicators |-> det.indicators,
                                chunkingStrategy |-> GetChunkingStrategy(det.detectedType),
                                metadataPatterns |-> GetMetadataPatterns(det.detectedType)]>>]
    /\ UNCHANGED sysVars
    /\ UNCHANGED <<crawl, rank, ck>>

DetectNext == DetectScore \/ DetectMaxStep \/ DetectReturn

DetectSpec == DetectInit /\ [][DetectNext]_vars

\* the returned SiteStructure
DetectResult == det.result[1]

\* C12 (as stated): the confidence is in [0, 1], and for empty HTML the
\* result is type unknown, confidence 0 and an empty indicator list.
C12_EmptyHtmlUnknown ==
    det.pc = "done" =>
        /\ DetectResult.confidence \in 0..100
        /\ det.html.empty =>
              /\ DetectResult.type = "unknown"
              /\ DetectResult.confidence = 0
              /\ DetectResult.indicators = <<>>

\* C12 (amended): the confidence is in [0, 1] and is 1 when the winning
\* score is 100 points or more; for empty HTML only the url patterns can
\* match, so the indicator list holds exactly the descriptions of the matched
\* url patterns, the confidence is at most 0.25, and the result is type
\* unknown, confidence 0 and an empty indicator list exactly when the url
\* matches none of the five url patterns.
C12_ConfidenceInUnitInterval ==
    det.pc = "done" =>
        /\ DetectResult.confidence \in 0..100
        /\ det.maxScore >= 100 => DetectResult.confidence = 100
        /\ det.maxScore < 100 => DetectResult.confidence = det.maxScore
        /\ det.html.empty =>
              /\ DetectResult.indicators = Descriptions(det.url, 1)
              /\ DetectResult.confidence <= 25
              /\ (det.url = {}) <=>
                    /\ DetectResult.type = "unknown"
                    /\ DetectResult.confidence = 0
                    /\ DetectResult.indicators = <<>>
              /\ (det.url = {}) <=> DetectResult.type = "unknown"

C12_CapReached ==
    /\ det.pc = "done"
    /\ det.maxScore > 100
    /\ DetectResult.confidence = 100

C12_Witness ==
    /\ det.pc = "done"
    /\ det.html.empty
    /\ DetectResult.type = "documentation"
    /\ DetectResult.confidence = 25

\* C13: the detected type is unknown exactly when all six type scores are
\* zero; otherwise it is a type whose score is the maximum, the first such
\* type in the order blog, documentation, ecommerce, marketing, news, forum;
\* confidence is min(maxScore/100, 1); the chunking strategy and metadata
\* patterns are those of the detected type.
C13_FirstMaximumWins ==
    det.pc = "done" =>
        LET sc == Scores(Matched(det.html, det.url))
            best == CHOOSE m \in { sc[t] : t \in SiteTypes } :
                       \A t \in SiteTypes : sc[t] <= m
            r == DetectResult
        IN /\ (r.type = "unknown") <=> (\A t \in SiteTypes : sc[t] = 0)
           /\ r.type # "unknown" =>
                 /\ sc[r.type] = best
                 /\ \A i \in 1..Len(TypeOrder) :
                       sc[TypeOrder[i]] = best =>
                           \E k \in 1..i : TypeOrder[k] = r.type
           /\ r.confidence = Min(best, 100)
           /\ r.chunkingStrategy = GetChunkingStrategy(r.type)
           /\ r.metadataPatterns = GetMetadataPatterns(r.type)

C13_Witness ==
    /\ det.pc = "done"
    /\ DetectResult.type = "documentation"
    /\ det.scores["documentation"] = det.scores["ecommerce"]
    /\ det.scores["blog"] > 0
    /\ det.scores["blog"] < det.scores["documentation"]

\* =====================================================================
\* The priority of one discovered link: the body of the loop over
\* content.links in ScraperService.scrapeWebsite, on the characters of
\* linkUrl.href
\* =====================================================================

MaxSegments == 3

UpperCase == <<"A", "B", "C", "D", "E", "F", "G", "H", "I", "J", "K", "L", "M", "N", "O", "P", "Q", "R", "S", "T", "U", "V", "W", "X", "Y", "Z">>
LowerCase == <<"a", "b", "c", "d", "e", "f", "g", "h", "i", "j", "k", "l", "m", "n", "o", "p", "q", "r", "s", "t", "u", "v", "w", "x", "y", "z">>
Digits == {"0", "1", "2", "3", "4", "5", "6", "7", "8", "9"}
LowerLetters == { LowerCase[k] : k \in 1..26 }

\* String.prototype.toLowerCase
toLowerCase(s) ==
    [i \in 1..Len(s) |->
        IF \E k \in 1..26 : UpperCase[k] = s[i]
        THEN LowerCase[CHOOSE k \in 1..26 : UpperCase[k] = s[i]]
        ELSE s[i]]

\* String.prototype.includes
includes(s, pattern) ==
    \E i \in 0..(Len(s) - Len(pattern)) : SubSeq(s, i + 1, i + Len(pattern)) = pattern

\* String.prototype.replace(pattern, ''): the first occurrence is removed
replace(s, pattern) ==
    IF ~includes(s, pattern) THEN s
    ELSE LET hits == { i \in 0..(Len(s) - Len(pattern)) :
                          SubSeq(s, i + 1, i + Len(pattern)) = pattern }
             i == CHOOSE h \in hits : \A k \in hits : h <= k
         IN SubSeq(s, 1, i) \o SubSeq(s, i + Len(pattern) + 1, Len(s))

\* the origin of the seed URL, and an origin of the same hostname with
\* another scheme
BaseOrigin == <<"h", "t", "t", "p", "s", ":", "/", "/", "h", ".", "i", "o">>
HttpOrigin == <<"h", "t", "t", "p", ":", "/", "/", "h", ".", "i", "o">>
LinkOrigins == { BaseOrigin, HttpOrigin }

\* path segments of the discovered links; the two long ones make a path
\* of exactly 50 and of 51 characters
PathSegments ==
    { <<"e", "n">>, <<"2", "0", "2", "4">>, <<"p", "o", "s", "t">>, <<"b", "l", "o", "g">>,
      <<"B", "l", "o", "g">>, <<"t", "a", "g">>, <<"x">>,
      <<"m", "y", "-", "a", "r", "t", "i", "c", "l", "e">>,
      Fill("a", 49), Fill("a", 50) }

\* "/" followed by the segments joined with "/"
RECURSIVE JoinPath(_)
JoinPath(segs) ==
    IF segs = <<>> THEN <<>>
    ELSE <<"/">> \o Head(segs) \o JoinPath(Tail(segs))

Pathname(segs) == IF segs = <<>> THEN <<"/">> ELSE JoinPath(segs)

\* the same-host links the priority is computed for: linkUrl.href with its
\* pathname
LinkInputs ==
    { [href |-> o \o Pathname(segs), pathname |-> Pathname(segs)] :
          o \in LinkOrigins, segs \in SeqsUpTo(PathSegments, MaxSegments) }

\* const excludePatterns
excludePatterns ==
    { <<"/", "a", "u", "t", "h", "o", "r", "/">>,
      <<"/", "c", "a", "t", "e", "g", "o", "r", "y", "/">>,
      <<"/", "t", "a", "g", "/">>,
      <<"/", "t", "a", "g", "s", "/">>,
      <<"/", "c", "a", "t", "e", "g", "o", "r", "i", "e", "s", "/">>,
      <<"/", "p", "a", "g", "e", "/">>,
      <<"/", "f", "e", "e", "d">>,
      <<"/", "r", "s", "s">>,
      <<"/", "a", "t", "o", "m">>,
      <<"/", "w", "p", "-", "a", "d", "m", "i", "n">>,
      <<"/", "w", "p", "-", "c", "o", "n", "t", "e", "n", "t">>,
      <<"/", "w", "p", "-", "i", "n", "c", "l", "u", "d", "e", "s">>,
      <<"/", "w", "p", "-", "j", "s", "o", "n">>,
      <<"/", "a", "d", "m", "i", "n", "/">>,
      <<"/", "l", "o", "g", "i", "n">>,
      <<"/", "r", "e", "g", "i", "s", "t", "e", "r">>,
      <<"/", "s", "i", "g", "n", "-", "i", "n">>,
      <<"/", "s", "i", "g", "n", "-", "u", "p">>,
      <<"/", "s", "e", "a", "r", "c", "h">>,
      <<"/", "c", "a", "r", "t">>,
      <<"/", "c", "h", "e", "c", "k", "o", "u", "t">>,
      <<"/", "a", "c", "c", "o", "u", "n", "t">>,
      <<"/", "p", "r", "i", "v", "a", "c", "y">>,
      <<"/", "t", "e", "r", "m", "s">>,
      <<"/", "l", "e", "g", "a", "l">>,
      <<"/", "c", "o", "o", "k", "i", "e", "s">>,
      <<"/", "c", "o", "n", "t", "a", "c", "t">>,
      <<"/", "a", "b", "o", "u", "t", "-", "u", "s">>,
      <<"/", "s", "i", "t", "e", "m", "a", "p">>,
      <<".", "p", "d", "f">>,
      <<".", "j", "p", "g">>,
      <<".", "p", "n", "g">>,
      <<".", "g", "i", "f">>,
      <<".", "z", "i", "p">>,
      <<".", "x", "m", "l">> }

\* const listingPatterns
listingPatterns ==
    { <<"/", "t", "o", "u", "s", "-", "n", "o", "s", "-", "a", "r", "t", "i", "c", "l", "e", "s">>,
      <<"/", "a", "l", "l", "-", "a", "r", "t", "i", "c", "l", "e", "s">>,
      <<"/", "a", "r", "t", "i", "c", "l", "e", "s">>,
      <<"/", "b", "l", "o", "g">>,
      <<"/", "p", "o", "s", "t", "s">>,
      <<"/", "n", "e", "w", "s">>,
      <<"/", "a", "r", "c", "h", "i", "v", "e">>,
      <<"/", "a", "r", "c", "h", "i", "v", "e", "s">> }

\* /\/\d{4}[/-]\d{1,2}[/-]\d{1,2}/.test(s)
HasFullDate(s) ==
    \E i \in 1..Len(s), d \in 1..2 :
        /\ i + 7 + d <= Len(s)
        /\ s[i] = "/"
        /\ \A k \in 1..4 : s[i + k] \in Digits
        /\ s[i + 5] \in {"/", "-"}
        /\ \A k \in 1..d : s[i + 5 + k] \in Digits
        /\ s[i + 6 + d] \in {"/", "-"}
        /\ s[i + 7 + d] \in Digits

\* /\/\d{4}\//.test(s)
HasYearSegment(s) ==
    \E i \in 1..Len(s) :
        /\ i + 5 <= Len(s)
        /\ s[i] = "/"
        /\ \A k \in 1..4 : s[i + k] \in Digits
        /\ s[i + 5] = "/"

\* /\/\d{4}[/-]/.test(s)
HasYearLikeDate(s) ==
    \E i \in 1..Len(s) :
        /\ i + 5 <= Len(s)
        /\ s[i] = "/"
        /\ \A k \in 1..4 : s[i + k] \in Digits
        /\ s[i + 5] \in {"/", "-"}

\* path.split('/').filter(Boolean).length
SegmentCount(s) ==
    Cardinality({ i \in 1..Len(s) : s[i] # "/" /\ (i = 1 \/ s[i - 1] = "/") })

\* /[a-z0-9-_]{10,}/.test(s)
HasSlug(s) ==
    \E i \in 1..Len(s) :
        /\ i + 9 <= Len(s)
        /\ \A k \in 0..9 : s[i + k] \in LowerLetters \cup Digits \cup {"-", "_"}

\* /\/[a-z0-9-]+\/?$/.test(s)
EndsWithSlug(s) ==
    LET end == IF Len(s) > 0 /\ s[Len(s)] = "/" THEN Len(s) - 1 ELSE Len(s)
    IN \E i \in 1..(end - 1) :
          /\ s[i] = "/"
          /\ \A k \in (i + 1)..end : s[k] \in LowerLetters \cup Digits \cup {"-"}

\* the positive signals of isArticleLink
ArticleScore(lower, path) ==
      (IF HasFullDate(path) THEN 30 ELSE 0)
    + (IF HasYearSegment(path) THEN 20 ELSE 0)
    + (IF includes(lower, <<"/", "b", "l", "o", "g", "/">>) THEN 25 ELSE 0)
    + (IF includes(lower, <<"/", "p", "o", "s", "t", "/">>) THEN 25 ELSE 0)
    + (IF includes(lower, <<"/", "a", "r", "t", "i", "c", "l", "e", "/">>) THEN 25 ELSE 0)
    + (IF includes(lower, <<"/", "n", "e", "w", "s", "/">>) THEN 20 ELSE 0)
    + (IF includes(lower, <<"/", "s", "t", "o", "r", "y", "/">>) THEN 20 ELSE 0)
    + (IF SegmentCount(path) >= 2 THEN 15 ELSE 0)
    + (IF SegmentCount(path) >= 3 THEN 10 ELSE 0)
    + (IF Len(path) > 40 THEN 10 ELSE 0)
    + (IF HasSlug(path) THEN 15 ELSE 0)
    + (IF EndsWithSlug(path) /\ Len(path) > 20 THEN 10 ELSE 0)

\* const isArticleLink = (href) => ...; origin is baseUrl.origin
isArticleLink(href, origin) ==
    LET lower == toLowerCase(href)
        path == replace(href, origin)
    IN /\ \A pattern \in excludePatterns : ~includes(lower, pattern)
       /\ ~includes(lower, <<"?">>) /\ ~includes(lower, <<"#">>)
       /\ lower # origin /\ lower # origin \o <<"/">>
       /\ lower # origin \o <<"/", "e", "n">> /\ lower # origin \o <<"/", "e", "n", "/">>
       /\ ArticleScore(lower, path) >= 20

\* const isFrenchContent = (href) => !href.includes('/en/')
isFrenchContent(href) == ~includes(href, <<"/", "e", "n", "/">>)

\* const isListingPage = (href) => listingPatterns.some(...)
isListingPage(href) ==
    \E pattern \in listingPatterns : includes(toLowerCase(href), pattern)

\* const path = linkUrl.href.replace(baseUrl.origin, ''); path.length > 50
LongPathBonus(href, origin, pathname) ==
    IF Len(replace(href, origin)) > 50 THEN 10 ELSE 0

\* the priority of an article link: base, date bonus, long path bonus
ArticlePriority(href, origin, pathname) ==
      (IF isFrenchContent(href) THEN 100 ELSE 50)
    + (IF HasYearLikeDate(href) THEN 20 ELSE 0)
    + LongPathBonus(href, origin, pathname)

PriorityInit ==
    /\ \E in \in LinkInputs :
          crawl = [pc |-> "link", origin |-> BaseOrigin, href |-> in.href,
                   pathname |-> in.pathname, priority |-> 0]
    /\ websites = [w \in WebsiteIds |-> "absent"]
    /\ statusLog = [w \in WebsiteIds |-> <<>>]
    /\ website_chunks = {}
    /\ website_chats = {}
    /\ website_chat_messages = {}
    /\ nextChatId = 1
    /\ job = [w \in WebsiteIds |-> JobIdle]
    /\ post = [r \in PostIds |-> PostIdle]
    /\ get = [g \in GetIds |-> GetIdle]
    /\ rank = RankIdle
    /\ ck = ChunkIdle
    /\ det = DetectIdle

\* if (isListingPage(linkUrl.href)) priority = 1000; newLinks.push(...)
LinkListing ==
    /\ crawl.pc = "link"
    /\ isListingPage(crawl.href)
    /\ crawl' = [crawl EXCEPT !.pc = "pushed", !.priority = 1000]
    /\ UNCHANGED sysVars
    /\ UNCHANGED <<rank, ck, det>>

\* else if (isArticleLink(linkUrl.href)) ...; newLinks.push(...)
LinkArticle ==
    /\ crawl.pc = "link"
    /\ ~isListingPage(crawl.href)
    /\ isArticleLink(crawl.href, crawl.origin)
    /\ crawl' = [crawl EXCEPT !.pc = "pushed",
                    !.priority = ArticlePriority(crawl.href, crawl.origin, crawl.pathname)]
    /\ UNCHANGED sysVars
    /\ UNCHANGED <<rank, ck, det>>

\* else priority = 1; newLinks.push(...)
LinkOther ==
    /\ crawl.pc = "link"
    /\ ~isListingPage(crawl.href)
    /\ ~isArticleLink(crawl.href, crawl.origin)
    /\ crawl' = [crawl EXCEPT !.pc = "pushed", !.priority = 1]
    /\ UNCHANGED sysVars
    /\ UNCHANGED <<rank, ck, det>>

PriorityNext ==
    \/ LinkListing
    \/ LinkArticle
    \/ LinkOther

PrioritySpec == PriorityInit /\ [][PriorityNext]_vars

\* the characters of the URLs of the crawl model
UrlText(u) ==
    BaseOrigin \o
    (CASE u = "h/" -> <<"/">>
       [] u = "h/blog" -> <<"/", "b", "l", "o", "g">>
       [] u = "h/en/2024/p" -> <<"/", "e", "n", "/", "2", "0", "2", "4", "/", "p">>
       [] u = "h/p" -> <<"/", "p">>)

\* the priority computed from the features of the link and the length of the
\* path of its URL
StatedPriority(href, origin, pathname) ==
    IF isListingPage(href) THEN 1000
    ELSE IF isArticleLink(href, origin)
         THEN (IF ~includes(href, <<"/", "e", "n", "/">>) THEN 100 ELSE 50)
              + (IF HasYearLikeDate(href) THEN 20 ELSE 0)
              + (IF Len(pathname) > 50 THEN 10 ELSE 0)
         ELSE 1

\* C24 (as stated): the priority of a same-host link is 1000 for a listing
\* link; otherwise, for an article-like link, 100 without '/en/' and 50 with
\* it, plus 20 for a year-like date pattern, plus 10 when the path of the
\* link is longer than 50 characters; otherwise 1.
C24_PriorityAsStated ==
    crawl.pc = "pushed" =>
        crawl.priority = StatedPriority(crawl.href, crawl.origin, crawl.pathname)

\* what does hold: the priority is one of the ten values, it is the stated
\* one for every link whose href starts with the seed's origin, and the
\* priorities of the crawl model are those of its URLs
C24_ValuesAndSameOrigin ==
    /\ crawl.pc = "pushed" =>
          /\ crawl.priority \in {1, 50, 60, 70, 80, 100, 110, 120, 130, 1000}
          /\ SubSeq(crawl.href, 1, Len(crawl.origin)) = crawl.origin =>
                crawl.priority = StatedPriority(crawl.href, crawl.origin, crawl.pathname)
    /\ \A u \in {"h/", "h/blog", "h/en/2024/p", "h/p"} :
          Priority(u) = StatedPriority(UrlText(u), BaseOrigin, replace(UrlText(u), BaseOrigin))

\* =====================================================================
\* Properties of the crawl (CrawlSpec, CrawlLiveSpec)
\* =====================================================================

\* the crawl loop is one sequential async function: it always takes its
\* next step
CrawlLiveSpec == CrawlSpec /\ WF_vars(CrawlNext)

C14_WithinBudget ==
    /\ crawl.pc \in {"loop", "done"} => Len(crawl.scrapedPages) <= crawl.maxPages
    /\ crawl.pc = "done" =>
          \/ Len(crawl.scrapedPages) = crawl.maxPages
          \/ crawl.urlsToVisit = <<>>

\* C14: the crawl loop terminates, never holds more than maxPages returned
\* pages, and when it has stopped either maxPages pages were collected or
\* the frontier is empty.
C14_TerminatesWithinBudget ==
    /\ []C14_WithinBudget
    /\ <>(crawl.pc = "done")

C14_Witness ==
    /\ crawl.pc = "done"
    /\ crawl.maxPages >= 2
    /\ Len(crawl.scrapedPages) = crawl.maxPages
    /\ crawl.urlsToVisit # <<>>
    /\ \E i \in 1..Len(crawl.attempts) : ~crawl.attempts[i].ok

\* C15 (as stated): with maxPages = 1 scrapeWebsite returns exactly one page.
C15_ExactlyOnePage ==
    (crawl.pc = "done" /\ crawl.maxPages = 1) => Len(crawl.scrapedPages) = 1

\* C15 (amended): with maxPages = 1 scrapeWebsite returns at most one page,
\* whatever the links of that page: it returns the first URL of the initial
\* frontier whose fetch succeeds, after which nothing more is fetched (the
\* links of that page stay queued); it returns no page exactly when the
\* fetch of every URL of the initial frontier failed.
C15_AtMostOnePage ==
    (crawl.pc = "done" /\ crawl.maxPages = 1) =>
        LET frontier == InitialFrontier(Dedupe(crawl.sitemapUrls), crawl.url)
            n == Len(crawl.attempts)
        IN /\ Len(crawl.scrapedPages) <= 1
           /\ n >= 1 /\ n <= Len(frontier)
           /\ \A i \in 1..n : crawl.attempts[i].url = frontier[i]
           /\ \A i \in 1..(n - 1) : ~crawl.attempts[i].ok
           /\ Len(crawl.scrapedPages) = 1 =>
                 /\ crawl.attempts[n].ok
                 /\ crawl.scrapedPages[1] = crawl.attempts[n].url
           /\ Len(crawl.scrapedPages) = 0 =>
                 /\ ~crawl.attempts[n].ok
                 /\ n = Len(frontier)
                 /\ crawl.urlsToVisit = <<>>

C15_Witness ==
    /\ crawl.pc = "done"
    /\ crawl.maxPages = 1
    /\ Len(crawl.scrapedPages) = 1
    /\ Len(crawl.attempts) = 2
    /\ ~crawl.attempts[1].ok
    /\ Len(crawl.urlsToVisit) >= 2

\* the position of the first occurrence of x in q
FirstIndex(q, x) ==
    CHOOSE i \in 1..Len(q) : q[i] = x /\ \A k \in 1..(i - 1) : q[k] # x

\* C16: when the crawl loop starts, the frontier is the seed URL alone if
\* sitemap discovery pushed no URL at any probed path, and otherwise the
\* distinct discovered URLs, in the order of their first discovery, followed
\* by the seed URL.
C16_InitialFrontier ==
    (crawl.pc = "loop" /\ crawl.attempts = <<>>) =>
        LET raw == crawl.sitemapUrls
            f == crawl.urlsToVisit
            n == Len(f)
        IN /\ n >= 1
           /\ f[n] = crawl.url
           /\ raw = <<>> => f = <<crawl.url>>
           /\ NoRepeat(SubSeq(f, 1, n - 1))
           /\ { f[i] : i \in 1..(n - 1) } = Range(raw)
           /\ \A i \in 1..(n - 1) : \A k \in 1..(n - 1) :
                 i < k => FirstIndex(raw, f[i]) < FirstIndex(raw, f[k])

C16_Witness ==
    /\ crawl.pc = "loop"
    /\ crawl.attempts = <<>>
    /\ Len(crawl.sitemapUrls) = 2
    /\ crawl.sitemapUrls[1] = crawl.sitemapUrls[2]
    /\ crawl.urlsToVisit = <<crawl.url, crawl.url>>

\* the number of positions of q that hold x
Occurrences(q, x) == Cardinality({ i \in 1..Len(q) : q[i] = x })

\* C17: no step of a crawl run appends to the frontier a URL that is in the
\* visited set: for every visited URL the number of its entries in the
\* frontier never grows.
C17_VisitedNeverRequeued ==
    [][\A u \in crawl'.visitedUrls :
          Occurrences(crawl'.urlsToVisit, u) <= Occurrences(crawl.urlsToVisit, u)]_vars

\* a page fetched later linked to a URL visited earlier
C17_Witness ==
    /\ crawl.pc = "done"
    /\ crawl.relinked
    /\ Len(crawl.scrapedPages) >= 2
    /\ crawl.urlsToVisit = <<>>

\* C21 (as stated): the frontier never contains the same URL twice at the
\* same time.
C21_FrontierNoRepeat == NoRepeat(crawl.urlsToVisit)

\* C21 (amended): an iteration of the crawl loop keeps the queued URLs behind
\* the popped one in place, and every URL it appends has the seed's
\* hostname, is not in the visited set and was not queued before this page's
\* links were appended.  (The links of one page are not compared with each
\* other, and the seed is appended to the sitemap URLs unconditionally, so
\* the frontier can hold one URL twice.)
C21_AppendsOnlyNewLinks ==
    [][(crawl.pc = "loop" /\ crawl'.pc = "loop") =>
          LET queue == Tail(crawl.urlsToVisit)
              after == crawl'.urlsToVisit
          IN /\ Len(after) >= Len(queue)
             /\ SubSeq(after, 1, Len(queue)) = queue
             /\ \A i \in (Len(queue) + 1)..Len(after) :
                   /\ Hostname(after[i]) = crawl.baseHostname
                   /\ after[i] \notin crawl'.visitedUrls
                   /\ after[i] \notin Range(queue)]_vars

\* a page linked to a visited URL and twice to one new URL: the visited one
\* was dropped, the new one is queued twice
C21_Witness ==
    /\ crawl.pc = "loop"
    /\ crawl.relinked
    /\ Len(crawl.scrapedPages) >= 1
    /\ \E i, k \in 1..Len(crawl.urlsToVisit) :
          /\ i < k
          /\ crawl.urlsToVisit[i] = crawl.urlsToVisit[k]
          /\ crawl.urlsToVisit[i] # crawl.url

\* C22: the frontier is a FIFO list.  Every iteration of the crawl loop
\* takes the URL at the front and leaves the queued URLs behind it in place
\* and in order; the links found on the fetched page that are not queued yet
\* are appended behind them, by descending priority, links of equal
\* priority in the order of their discovery.  The frontier as a whole is
\* never re-sorted.
C22_FifoBatches ==
    [][(crawl.pc = "loop" /\ crawl'.pc = "loop") =>
          LET queue == Tail(crawl.urlsToVisit)
              after == crawl'.urlsToVisit
              found == crawl'.newLinks
              kept == { i \in 1..Len(found) : found[i].url \notin Range(queue) }
              n == Len(after) - Len(queue)
          IN /\ Len(crawl'.attempts) > Len(crawl.attempts) =>
                   crawl'.attempts[Len(crawl'.attempts)].url = Head(crawl.urlsToVisit)
             /\ n = Cardinality(kept)
             /\ SubSeq(after, 1, Len(queue)) = queue
             /\ \E pos \in [1..n -> kept] :
                   /\ \A i \in 1..n : after[Len(queue) + i] = found[pos[i]].url
                   /\ \A i, k \in 1..n : i < k =>
                         \/ found[pos[i]].priority > found[pos[k]].priority
                         \/ /\ found[pos[i]].priority = found[pos[k]].priority
                            /\ pos[i] < pos[k]]_vars

\* the seed page queued h/p and h/ (equal priority, in discovery order); the
\* page h/p was fetched next and its listing link h/blog, of priority 1000,
\* waits behind h/, of priority 1
C22_Witness ==
    /\ crawl.pc = "loop"
    /\ Len(crawl.attempts) = 2
    /\ crawl.attempts[1].ok /\ crawl.attempts[2].ok
    /\ crawl.attempts[2].url = "h/p"
    /\ crawl.urlsToVisit = <<"h/", "h/blog">>
    /\ Priority(crawl.urlsToVisit[1]) < Priority(crawl.urlsToVisit[2])
    /\ Len(crawl.newLinks) = 1

\* the URLs of the successful attempts, in order
RECURSIVE OkUrls(_)
OkUrls(attempts) ==
    IF attempts = <<>> THEN <<>>
    ELSE (IF Head(attempts).ok THEN <<Head(attempts).url>> ELSE <<>>)
         \o OkUrls(Tail(attempts))

\* C23: a page whose fetch or parsing fails is skipped and the run goes on.
\* The returned pages are exactly the URLs whose fetch succeeded, and the
\* step in which a fetch fails leaves the returned pages and the visited
\* set as they were, appends no link to the frontier and stays in the loop.
C23_FailureIsSkipped ==
    /\ [](crawl.scrapedPages = OkUrls(crawl.attempts))
    /\ [][(/\ Len(crawl'.attempts) = Len(crawl.attempts) + 1
           /\ ~crawl'.attempts[Len(crawl'.attempts)].ok) =>
             /\ crawl'.pc = "loop"
             /\ crawl'.scrapedPages = crawl.scrapedPages
             /\ crawl'.visitedUrls = crawl.visitedUrls
             /\ crawl'.urlsToVisit = Tail(crawl.urlsToVisit)]_vars

\* the second of three fetches failed; the first and the third page were
\* returned
C23_Witness ==
    /\ crawl.pc = "done"
    /\ Len(crawl.attempts) = 3
    /\ crawl.attempts[1].ok /\ ~crawl.attempts[2].ok /\ crawl.attempts[3].ok
    /\ Len(crawl.scrapedPages) = 2
    /\ crawl.maxPages = 2
    /\ crawl.attempts[2].url \notin crawl.visitedUrls

\* C28 (as stated): a URL whose fetch failed is not retried immediately: the
\* attempt that follows a failed attempt is of another URL.
C28_NeverRetriedAtOnce ==
    \A i \in 1..(Len(crawl.attempts) - 1) :
        ~crawl.attempts[i].ok => crawl.attempts[i + 1].url # crawl.attempts[i].url

\* C28 (amended): a URL whose fetch failed is not added to the visited set
\* and is not put back in the frontier by the failing step, which only
\* removes the popped entry; the visited set holds exactly the URLs fetched
\* with success, so a failed URL is attempted again when another entry of
\* it is still queued or when a page fetched later links to it, and it
\* still appears at most once among the returned pages.
C28_FailedUrlCanBeRetried ==
    /\ [](/\ crawl.pc \in {"loop", "done"} =>
                crawl.visitedUrls = Range(OkUrls(crawl.attempts))
          /\ NoRepeat(crawl.scrapedPages))
    /\ [][(/\ Len(crawl'.attempts) = Len(crawl.attempts) + 1
           /\ ~crawl'.attempts[Len(crawl'.attempts)].ok) =>
             /\ Head(crawl.urlsToVisit) \notin crawl'.visitedUrls
             /\ Occurrences(crawl'.urlsToVisit, Head(crawl.urlsToVisit))
                   = Occurrences(crawl.urlsToVisit, Head(crawl.urlsToVisit)) - 1]_vars

\* without a sitemap: the seed page queued two URLs, the fetch of the first
\* failed, the second page linked to it again, and the second attempt
\* succeeded
C28_Witness ==
    /\ crawl.sitemapUrls = <<>>
    /\ Len(crawl.attempts) = 4
    /\ crawl.attempts[1].ok
    /\ ~crawl.attempts[2].ok
    /\ crawl.attempts[3].ok
    /\ crawl.attempts[3].url # crawl.attempts[2].url
    /\ crawl.attempts[4].ok
    /\ crawl.attempts[4].url = crawl.attempts[2].url
    /\ Occurrences(crawl.scrapedPages, crawl.attempts[2].url) = 1

\* =====================================================================
\* Properties of the heading, section and paragraph chunkers (ChunkSpec)
\* =====================================================================

\* C25 (as stated): in heading mode every line that matches the heading
\* pattern while the current chunk has reached at least 30% of preferredSize
\* closes the current chunk and starts the next chunk with that line,
\* whatever the lines before it.
C25_EveryHeadingCloses ==
    [][(ck.pc = "heading" /\ ck.rest # <<>>) =>
          LET line == Head(ck.rest)
          IN (/\ MatchesHeading(line)
              /\ 10 * Len(ck.currentChunk) >= 3 * ck.preferredSize) =>
                 /\ Len(ck'.chunks) > Len(ck.chunks)
                 /\ ck'.chunks[Len(ck.chunks) + 1] = Trim(ck.currentChunk)
                 /\ ck'.currentChunk = line]_vars

\* whether line n of the lines is recognised as a heading by the code: it
\* matches the pattern and the line before it was not recognised
RECURSIVE Recognised(_, _)
Recognised(lines, n) ==
    /\ MatchesHeading(lines[n])
    /\ (n = 1 \/ ~Recognised(lines, n - 1))

\* what does hold: a matching line closes the chunk when the chunk is longer
\* than 30% of preferredSize and the line before it was not recognised as a
\* heading; a matching line directly after a recognised heading is appended
\* to the current chunk like any other line
C25_HeadingAfterHeadingAppended ==
    [][(ck.pc = "heading" /\ ck.rest # <<>>) =>
          LET lines == SplitLines(ck.text, <<>>)
              n == Len(lines) - Len(ck.rest) + 1
              line == Head(ck.rest)
              appended == ck.currentChunk \o <<NL>> \o line
          IN /\ (Recognised(lines, n) /\ 10 * Len(ck.currentChunk) > 3 * ck.preferredSize) =>
                   /\ ck'.chunks[Len(ck.chunks) + 1] = Trim(ck.currentChunk)
                   /\ ck'.currentChunk = line
             /\ (MatchesHeading(line) /\ ~Recognised(lines, n)) =>
                   \/ ck'.currentChunk = appended /\ ck'.chunks = ck.chunks
                   \/ ck'.chunks = Append(ck.chunks, Trim(appended))]_vars

\* the most recent of the lines 1..n that was recognised as a heading, the
\* empty string when there is none
LastHeadingSeen(lines, n) ==
    LET seen == { k \in 1..n : Recognised(lines, k) }
    IN IF seen = {} THEN <<>>
       ELSE lines[CHOOSE k \in seen : \A j \in seen : j <= k]

\* the current chunk after the line at the head of rest was processed,
\* before the test of its size
GrownChunk ==
    LET lines == SplitLines(ck.text, <<>>)
        n == Len(lines) - Len(ck.rest) + 1
        line == Head(ck.rest)
    IN IF Recognised(lines, n) /\ 10 * Len(ck.currentChunk) > 3 * ck.preferredSize
       THEN line
       ELSE ck.currentChunk \o <<NL>> \o line

\* C26 (as stated): in heading mode a chunk that grows past 150% of
\* preferredSize is emitted at once and the next chunk starts with the most
\* recent heading line seen so far in the text, the empty string if there
\* was none, whether or not that heading closed a chunk.
C26_RestartsFromLastHeadingSeen ==
    [][(ck.pc = "heading" /\ ck.rest # <<>> /\ 2 * Len(GrownChunk) > 3 * ck.preferredSize) =>
          LET lines == SplitLines(ck.text, <<>>)
              n == Len(lines) - Len(ck.rest) + 1
          IN /\ Len(ck'.chunks) > Len(ck.chunks)
             /\ ck'.chunks[Len(ck'.chunks)] = Trim(GrownChunk)
             /\ ck'.currentChunk = LastHeadingSeen(lines, n)]_vars

\* what does hold: the chunk is emitted at once and the next chunk starts
\* with the last heading that closed a chunk, the empty string if no heading
\* closed one
C26_RestartsFromLastClosingHeading ==
    [][(ck.pc = "heading" /\ ck.rest # <<>>) =>
          LET lines == SplitLines(ck.text, <<>>)
              n == Len(lines) - Len(ck.rest) + 1
              closes == /\ Recognised(lines, n)
                        /\ 10 * Len(ck.currentChunk) > 3 * ck.preferredSize
          IN /\ ck'.lastHeading = IF closes THEN Head(ck.rest) ELSE ck.lastHeading
             /\ 2 * Len(GrownChunk) > 3 * ck.preferredSize =>
                   /\ ck'.chunks[Len(ck'.chunks)] = Trim(GrownChunk)
                   /\ ck'.currentChunk = ck'.lastHeading
             /\ 2 * Len(GrownChunk) <= 3 * ck.preferredSize =>
                   ck'.currentChunk = GrownChunk]_vars

\* the last n space-separated words of a chunk joined by spaces; no word
\* for n = 0
LastWords(chunk, n) ==
    LET words == SplitSpaces(chunk, <<>>)
    IN IF n = 0 THEN <<>>
       ELSE JoinSpaces(SubSeq(words, Max(1, Len(words) - n + 1), Len(words)))

\* a step of section mode in which the next block does not fit
SectionOverflows ==
    /\ ck.pc = "section"
    /\ ck.rest # <<>>
    /\ Len(ck.currentChunk) > 0
    /\ Len(ck.currentChunk) + Len(Head(ck.rest)) > ck.preferredSize

\* C27 (as stated): in section mode, when the next block does not fit, the
\* running chunk is emitted and the next chunk starts with the last
\* floor(overlap / 5) words of the emitted chunk, a blank line and the new
\* block; no word is carried over when overlap is below 5.
C27_CarriesOverlapWords ==
    [][SectionOverflows =>
          /\ ck'.chunks = Append(ck.chunks, Trim(ck.currentChunk))
          /\ ck'.currentChunk =
                LastWords(ck.currentChunk, ck.overlap \div 5)
                   \o <<NL, NL>> \o Head(ck.rest)]_vars

\* what does hold: blocks are accumulated while they fit, the running chunk
\* is emitted when the next block does not fit, and the next chunk starts
\* with the last floor(overlap / 5) words when overlap is at least 5; when
\* overlap is below 5 it starts with the whole emitted chunk
C27_CarriesWholeChunkBelowFive ==
    [][(ck.pc = "section" /\ ck.rest # <<>>) =>
          IF SectionOverflows
          THEN /\ ck'.chunks = Append(ck.chunks, Trim(ck.currentChunk))
               /\ ck'.currentChunk =
                     (IF ck.overlap >= 5
                      THEN LastWords(ck.currentChunk, ck.overlap \div 5)
                      ELSE ck.currentChunk) \o <<NL, NL>> \o Head(ck.rest)
          ELSE /\ ck'.chunks = ck.chunks
               /\ ck'.currentChunk =
                     IF ck.currentChunk = <<>> THEN Head(ck.rest)
                     ELSE ck.currentChunk \o <<NL, NL>> \o Head(ck.rest)]_vars

\* C30: in paragraph mode (0 < preferredSize, 0 <= overlap < preferredSize)
\* the start index strictly increases on every iteration and the windows
\* leave no gap.  Window i is the text from its start to the end of its
\* chunk before trimming; the first starts at 0, each next one starts at the
\* end of the one before it when that one was cut at a sentence terminator
\* or newline, and otherwise preferredSize - overlap after its start, which
\* is not past its end; the last one ends at the end of the text, so every
\* character position lies in a window.
C30_WindowsLeaveNoGap ==
    ck.respectBoundaries = "paragraph" =>
        LET n == Len(ck.windows)
            start(i) == ck.windows[i][1]
            end(i) == ck.chunkEnds[i]
            next(i) == IF i < n THEN start(i + 1) ELSE ck.startIndex
        IN /\ n >= 1 => start(1) = 0
           /\ \A i \in 1..n :
                 /\ start(i) < end(i)
                 /\ end(i) <= ck.windows[i][2]
                 /\ start(i) < next(i)
                 /\ next(i) <= end(i)
                 /\ \/ next(i) = end(i)
                    \/ /\ end(i) = ck.windows[i][2]
                       /\ next(i) = start(i) + ck.preferredSize - ck.overlap
           /\ ck.pc = "done" =>
                 \A pos \in 0..(Len(ck.text) - 1) :
                     \E i \in 1..n : start(i) <= pos /\ pos < end(i)

\* a run with a window cut short at a newline and a window that overlaps
\* the one before it
C30_Witness ==
    /\ ck.pc = "done"
    /\ ck.respectBoundaries = "paragraph"
    /\ ck.overlap > 0
    /\ Len(ck.windows) >= 4
    /\ \E i \in 1..Len(ck.windows) : ck.chunkEnds[i] < ck.windows[i][2]
    /\ \E i \in 1..(Len(ck.windows) - 1) : ck.windows[i + 1][1] < ck.chunkEnds[i]

====
